---- MODULE Spec2Model ----
(***************************************************************************)
(* State-machine model of farmersdog-mcp (src/src/index.ts): the session   *)
(* store, the session manager (getPage / login / solveTurnstile), the      *)
(* request-interception broker (handleRoute / executeInterceptedQuery)     *)
(* and the query executor (query / queryCustomer).                         *)
(*                                                                         *)
(* JavaScript runs one callback to completion before the next one starts.  *)
(* Every action below is one such run: the code between two awaits.        *)
(***************************************************************************)
EXTENDS Integers, Sequences, FiniteSets, TLC

\* ---------------------------------------------------------------- bounds
MaxTicks == 2
MaxBrowsers == 3
MaxRequests == 2
NumCallers == 2

\* ------------------------------------------------------ program constants
MAX_LOGIN_RETRIES == 3
TTL_MS == 8 * 3600 * 1000
GRAPHQL_URL == "core-api-customer/graphql"
CUSTOMER_GRAPHQL_URL == "core-api-customer/customer-graphql"

\* The clock reading the process starts with: descriptors an earlier process saved
\* at 0, 1 and 2 are then one millisecond over, at, and one millisecond under the TTL.
StartTime == TTL_MS + 1

\* Representative clock advances: one millisecond, and a whole TTL.
ClockSteps == {1, TTL_MS}

VARIABLES
    now,            \* Date.now()
    ticks,          \* how often the clock has advanced
    sessionFile,    \* contents of SESSION_FILE
    activeBrowser,  \* module-level activeBrowser (0 = null)
    activePage,     \* module-level activePage (0 = null)
    routeInstalled, \* module-level routeInstalled
    pendingQuery,   \* module-level pendingQuery slot, as the list of queries it holds
    creds,          \* constructor: which of the four credential fields are non-empty
    captchaSolver,  \* constructor: TWOCAPTCHA_API_KEY was set
    browsers,       \* every Browser object connectOverCDP has returned
    reqs,           \* requests of the pages that are on the network
    lastRequest,    \* the request the page issued in the step just taken, if any
    lastResponse,   \* the response the page emitted in the step just taken, if any
    reads,          \* response listeners suspended in `await r.text()`
    ex,             \* closure state of each executeInterceptedQuery call
    running,        \* caller whose synchronous code is executing (0 = event loop idle)
    pc,             \* position of each caller
    loc,            \* locals of each caller
    hist            \* per-caller record of what the call has done (observation only)

vars == <<now, ticks, sessionFile, activeBrowser, activePage, routeInstalled, pendingQuery,
          creds, captchaSolver, browsers, reqs, lastRequest, lastResponse, reads, ex, running,
          pc, loc, hist>>

\* ------------------------------------------------------------ session store
\* File contents: no file, unparseable text, the record "{}", or a descriptor.
FileAbsent == [kind |-> "absent", wsEndpoint |-> "", savedAt |-> 0]
FileMalformed == [kind |-> "malformed", wsEndpoint |-> "", savedAt |-> 0]
FileEmpty == [kind |-> "empty", wsEndpoint |-> "", savedAt |-> 0]
SavedSession(w, t) == [kind |-> "session", wsEndpoint |-> w, savedAt |-> t]
\* The null a failed loadSession returns.
NoSession == [kind |-> "null", wsEndpoint |-> "", savedAt |-> 0]

\* A write path that stamps the descriptor with the epoch instead of the clock.
saveSessionUnstamped(wsEndpoint, t) == SavedSession(wsEndpoint, 0)

\* writeFileSync(SESSION_FILE, JSON.stringify({ wsEndpoint, savedAt: Date.now() }))
saveSession(wsEndpoint, t) == SavedSession(wsEndpoint, t)

\* A read path that forgets the age test.
loadSessionAnyAge(file, t) == IF file.kind = "session" THEN file ELSE NoSession

\* existsSync false -> null; JSON.parse throws -> null; "{}" has no savedAt,
\* Date.now() - undefined is NaN and NaN < TTL is false -> null.
loadSession(file, t) ==
    IF file.kind = "session" /\ t - file.savedAt < TTL_MS THEN file ELSE NoSession

\* An invalidation that removes the file.
clearSessionFileDeletes(file) == FileAbsent

\* An invalidation that leaves the file as it is.
clearSessionFileKeeps(file) == file

\* if (existsSync(SESSION_FILE)) writeFileSync(SESSION_FILE, "{}")
clearSessionFile(file) == IF file.kind = "absent" THEN file ELSE FileEmpty


\* ------------------------------------------------------------------- types
Callers == 1 .. NumCallers
BrowserIds == 1 .. MaxBrowsers
\* One executeInterceptedQuery call per (caller, attempt).
ExecIds == 1 .. (2 * NumCallers)
ExecId(c, attempt) == 2 * (c - 1) + attempt

\* A result is the data answering a request body, or an error message.
NoResult == [kind |-> "none", msg |-> "", answers |-> 0]
DataResult(body) == [kind |-> "data", msg |-> "", answers |-> body]
ErrorResult(m) == [kind |-> "error", msg |-> m, answers |-> 0]

MissingCreds == "Missing creds"
LoginFailed == "Login failed after 3 attempts"
QueryTimeout == "Query timeout (30s)"

\* A Browser object that is closed; its id is free again once nothing holds it.
\* (valid: the page was found inside the application, by the URL test of the
\* reconnect or by the redirect of a login)
NoBrowser == [state |-> "closed", routes |-> 0, valid |-> FALSE]
NoExec == [state |-> "none", page |-> 0, swapped |-> FALSE, timer |-> FALSE,
           listening |-> FALSE, answers |-> 0, err |-> "", stomped |-> FALSE,
           sent |-> 0]
\* (stomped: the execution's query was still in the slot when a later
\* execution assigned the slot; sent: the requests that left the browser with
\* the execution's query)
\* The body of a request the application wrote itself (payloads are caller ids).
AppBody == 0
\* How a request left the browser: what the application wrote (origUrl), whether
\* a query was pending, whether handleRoute was run for it (handled), what went
\* out (url, body), the route.continue() calls made for it and the execution
\* whose resolve() was called.
NoRequest == [origUrl |-> "", pendingAtArrival |-> FALSE, handled |-> FALSE, url |-> "",
              body |-> AppBody, continues |-> 0, signalled |-> 0]

\* A "response" event of a page: the response, and the executions whose listener
\* went on to read its body.
NoResponse == [page |-> 0, url |-> "", hasData |-> FALSE, readers |-> {}]

InitLoc == [method |-> "", retry |-> TRUE, attempt |-> 0, probed |-> 0,
            saved |-> NoSession, browser |-> 0, routing |-> FALSE, i |-> 0,
            tsI |-> 0, page |-> 0,
            fields |-> "", result |-> NoResult, cleared |-> 0]
InitHist == [nGetPage |-> 0, nExec |-> 0, nLogin |-> 0, nReconnect |-> 0,
             nFailed |-> 0, steps |-> <<>>, won |-> "", callTime |-> 0,
             loadedAt |-> 0, reconFailed |-> "", tsDelays |-> 0, tsVia |-> "",
             serviceThrew |-> FALSE, filled |-> FALSE, submitted |-> FALSE,
             savedAt |-> 0, savedRef |-> "", storeOp |-> "", tsOk |-> FALSE,
             lgSaved |-> FALSE, lgEnd |-> "", refilled |-> {},
             prevRef |-> "", tally |-> FALSE, totLogin |-> 0, totReconnect |-> 0,
             leftover |-> FALSE, cleaned |-> FALSE]
\* (leftover: step 1 was skipped although activePage held a page;
\* cleaned: cleanup() has closed a browser since the last call ended;
\* tally: the call's totals totLogin and totReconnect are kept; they are kept
\* only in the specification that bounds the work of a call)

\* Something of the program still holds Browser b or its page.
Referenced(b) ==
    \/ activeBrowser = b \/ activePage = b
    \/ \E c \in Callers : b \in {loc[c].page, loc[c].probed, loc[c].browser}
    \/ \E e \in ExecIds : ex[e].page = b
    \/ \E r \in reqs : r.page = b

\* The next Browser object connectOverCDP hands out.
FreeBrowser(b) == browsers[b].state = "closed" /\ ~Referenced(b)
HasFreeBrowser == \E b \in BrowserIds : FreeBrowser(b)
NewBrowser == CHOOSE b \in BrowserIds :
    FreeBrowser(b) /\ \A a \in BrowserIds : a < b => ~FreeBrowser(a)

\* browser.close(): the pages, their routes and their traffic go with it
CloseBrowser(brs, b) ==
    IF b = 0 THEN brs ELSE [brs EXCEPT ![b] = NoBrowser]
DropRequests(rq, b) == {r \in rq : ~(b # 0 /\ r.page = b)}
DropReads(rd, b) == {x \in rd : ~(b # 0 /\ x[2].page = b)}

Goto(c, p) == pc' = [pc EXCEPT ![c] = p]

\* clearSession(): the store's record becomes "{}", the handles are dropped and
\* activeBrowser is closed. brs is the Browser table the call starts from.
clearSession(brs) ==
    /\ sessionFile' = clearSessionFile(sessionFile)
    /\ activePage' = 0
    /\ routeInstalled' = FALSE
    /\ browsers' = CloseBrowser(brs, activeBrowser)
    /\ reqs' = DropRequests(reqs, activeBrowser)
    /\ reads' = DropReads(reads, activeBrowser)
    /\ activeBrowser' = 0


\* ----------------------------------------------------------------- getPage
\* Entering getPage(): what the calling query() hands over.
CallGetPage(c) ==
    /\ Goto(c, "gp_start")
    /\ hist' = [hist EXCEPT ![c].nGetPage = @ + 1, ![c].steps = <<>>, ![c].won = "",
                            ![c].nLogin = 0, ![c].nReconnect = 0, ![c].nFailed = 0,
                            ![c].callTime = now, ![c].loadedAt = 0,
                            ![c].reconFailed = "", ![c].savedAt = 0]
    /\ running' = c

\* A test of the page alone.
InMemoryUsableIgnoresRoute == activePage # 0

\* if (activePage && routeInstalled)
InMemoryUsable == activePage # 0 /\ routeInstalled

\* A loop that runs one attempt more.
LoginLoopOneMore(i) == i <= MAX_LOGIN_RETRIES + 1

\* for (let i = 1; i <= MAX_LOGIN_RETRIES; i++)
LoginLoopContinues(i) == i <= MAX_LOGIN_RETRIES

\* Step 1 begins: the liveness probe of the in-memory page is started, or skipped.
GpStart(c) ==
    /\ running = c /\ pc[c] = "gp_start"
    /\ IF InMemoryUsable
       THEN /\ Goto(c, "gp_probe")
            /\ loc' = [loc EXCEPT ![c].probed = activePage]
            /\ hist' = [hist EXCEPT ![c].steps = Append(@, "reuse")]
            /\ running' = 0
       ELSE /\ Goto(c, "gp_load")
            /\ hist' = [hist EXCEPT ![c].leftover = (activePage # 0)]
            /\ UNCHANGED <<loc, running>>
    /\ lastRequest' = NoRequest /\ lastResponse' = NoResponse /\ UNCHANGED <<now, ticks, sessionFile, activeBrowser, activePage, routeInstalled,
                   pendingQuery, creds, captchaSolver, browsers, reqs, reads, ex>>

\* A step 1 that, its probe having succeeded, falls through to step 2.
GpProbeOkFallsThrough(c) ==
    /\ running = 0 /\ pc[c] = "gp_probe"
    /\ browsers[loc[c].probed].state = "open"
    /\ Goto(c, "gp_load")
    /\ loc' = [loc EXCEPT ![c].page = activePage, ![c].probed = 0]
    /\ hist' = [hist EXCEPT ![c].won = "reuse"]
    /\ running' = c
    /\ lastRequest' = NoRequest /\ lastResponse' = NoResponse
    /\ UNCHANGED <<now, ticks, sessionFile, activeBrowser, activePage, routeInstalled,
                   pendingQuery, creds, captchaSolver, browsers, reqs, reads, ex>>

\* A step 1 that writes the descriptor anew when it reuses the session.
GpProbeOkResaves(c) ==
    /\ running = 0 /\ pc[c] = "gp_probe"
    /\ browsers[loc[c].probed].state = "open"
    /\ Goto(c, "gp_return")
    /\ loc' = [loc EXCEPT ![c].page = activePage, ![c].probed = 0]
    /\ hist' = [hist EXCEPT ![c].won = "reuse"]
    /\ sessionFile' = saveSession("wsUrl", now)
    /\ running' = c
    /\ lastRequest' = NoRequest /\ lastResponse' = NoResponse
    /\ UNCHANGED <<now, ticks, activeBrowser, activePage, routeInstalled,
                   pendingQuery, creds, captchaSolver, browsers, reqs, reads, ex>>

\* await activePage.evaluate(() => true); return activePage
GpProbeOk(c) ==
    /\ running = 0 /\ pc[c] = "gp_probe"
    /\ browsers[loc[c].probed].state = "open"
    /\ Goto(c, "gp_return")
    /\ loc' = [loc EXCEPT ![c].page = activePage, ![c].probed = 0]
    /\ hist' = [hist EXCEPT ![c].won = "reuse"]
    /\ running' = c
    /\ lastRequest' = NoRequest /\ lastResponse' = NoResponse /\ UNCHANGED <<now, ticks, sessionFile, activeBrowser, activePage, routeInstalled,
                   pendingQuery, creds, captchaSolver, browsers, reqs, reads, ex>>

\* the probe throws: catch { clearSession(); }
GpProbeThrows(c) ==
    /\ running = 0 /\ pc[c] = "gp_probe"
    /\ clearSession(browsers)
    /\ Goto(c, "gp_load")
    /\ running' = c
    /\ lastRequest' = NoRequest /\ lastResponse' = NoResponse /\ UNCHANGED <<now, ticks, pendingQuery, creds, captchaSolver, ex, loc, hist>>

\* Step 2: const saved = loadSession(); if (saved) connectOverCDP(saved.wsEndpoint)
GpLoad(c) ==
    /\ running = c /\ pc[c] = "gp_load"
    /\ LET d == loadSession(sessionFile, now) IN
         /\ loc' = [loc EXCEPT ![c].saved = d]
         /\ IF d # NoSession
            THEN /\ Goto(c, "gp_connect")
                 /\ hist' = [hist EXCEPT ![c].steps = Append(@, "reconnect"),
                                         ![c].nReconnect = @ + 1,
                                         ![c].totReconnect =
                                             IF hist[c].tally THEN @ + 1 ELSE @,
                                         ![c].loadedAt = now]
                 /\ running' = 0
            ELSE /\ Goto(c, "gp_creds")
                 /\ hist' = [hist EXCEPT ![c].loadedAt = now]
                 /\ UNCHANGED running
    /\ lastRequest' = NoRequest /\ lastResponse' = NoResponse /\ UNCHANGED <<now, ticks, sessionFile, activeBrowser, activePage, routeInstalled,
                   pendingQuery, creds, captchaSolver, browsers, reqs, reads, ex>>

\* connectOverCDP throws (timeout, endpoint gone): catch {} clearSession()
GpConnectThrows(c) ==
    /\ running = 0 /\ pc[c] = "gp_connect"
    /\ clearSession(browsers)
    /\ Goto(c, "gp_creds")
    /\ hist' = [hist EXCEPT ![c].reconFailed = "connect"]
    /\ running' = c
    /\ lastRequest' = NoRequest /\ lastResponse' = NoResponse /\ UNCHANGED <<now, ticks, pendingQuery, creds, captchaSolver, ex, loc>>

\* connectOverCDP returns a browser; page && page.url().includes("/app/") decides
\* between probing the page and browser.close() followed by clearSession().
GpConnectOk(c) ==
    /\ running = 0 /\ pc[c] = "gp_connect"
    /\ HasFreeBrowser
    /\ LET b == NewBrowser
           opened == [browsers EXCEPT ![b].state = "open"]
       IN \E inApp \in BOOLEAN :
            IF inApp
            THEN /\ browsers' = [opened EXCEPT ![b].valid = TRUE]
                 /\ loc' = [loc EXCEPT ![c].browser = b]
                 /\ Goto(c, "gp_recon_probe")
                 /\ UNCHANGED <<sessionFile, activeBrowser, activePage, routeInstalled,
                                reqs, reads, hist, running>>
            ELSE /\ clearSession(CloseBrowser(opened, b))
                 /\ Goto(c, "gp_creds")
                 /\ hist' = [hist EXCEPT ![c].reconFailed = "url"]
                 /\ running' = c
                 /\ UNCHANGED loc
    /\ lastRequest' = NoRequest /\ lastResponse' = NoResponse /\ UNCHANGED <<now, ticks, pendingQuery, creds, captchaSolver, ex>>

\* installRoutes(page): if (routeInstalled) return; otherwise page.route(...) is
\* started.  routing tells the resumption which of the two it was.
StartInstallRoutes(c, p) ==
    loc' = [loc EXCEPT ![c].browser = p, ![c].routing = ~routeInstalled]

\* await page.evaluate(() => true); activeBrowser = browser; activePage = page;
\* await this.installRoutes(page)
GpReconProbeOk(c) ==
    /\ running = 0 /\ pc[c] = "gp_recon_probe"
    /\ browsers[loc[c].browser].state = "open"
    /\ activeBrowser' = loc[c].browser
    /\ activePage' = loc[c].browser
    /\ StartInstallRoutes(c, loc[c].browser)
    /\ Goto(c, "gp_recon_route")
    /\ lastRequest' = NoRequest /\ lastResponse' = NoResponse /\ UNCHANGED <<now, ticks, sessionFile, routeInstalled, pendingQuery, creds, captchaSolver,
                   browsers, reqs, reads, ex, running, hist>>

\* the probe of the reconnected page throws: catch {} clearSession()
GpReconProbeThrows(c) ==
    /\ running = 0 /\ pc[c] = "gp_recon_probe"
    /\ clearSession(browsers)
    /\ Goto(c, "gp_creds")
    /\ hist' = [hist EXCEPT ![c].reconFailed = "probe"]
    /\ running' = c
    /\ lastRequest' = NoRequest /\ lastResponse' = NoResponse /\ UNCHANGED <<now, ticks, pendingQuery, creds, captchaSolver, ex, loc>>

\* installRoutes resumes: routeInstalled = true after page.route; return page
GpReconRouteOk(c) ==
    /\ running = 0 /\ pc[c] = "gp_recon_route"
    /\ IF loc[c].routing
       THEN /\ browsers' = [browsers EXCEPT ![loc[c].browser].routes = @ + 1]
            /\ routeInstalled' = TRUE
       ELSE UNCHANGED <<browsers, routeInstalled>>
    /\ loc' = [loc EXCEPT ![c].page = loc[c].browser, ![c].browser = 0,
                          ![c].routing = FALSE, ![c].saved = NoSession, ![c].probed = 0]
    /\ hist' = [hist EXCEPT ![c].won = "reconnect"]
    /\ Goto(c, "gp_return")
    /\ running' = c
    /\ lastRequest' = NoRequest /\ lastResponse' = NoResponse /\ UNCHANGED <<now, ticks, sessionFile, activeBrowser, activePage, pendingQuery, creds,
                   captchaSolver, reqs, reads, ex>>

\* page.route rejects (the target closed meanwhile): catch {} clearSession()
GpReconRouteThrows(c) ==
    /\ running = 0 /\ pc[c] = "gp_recon_route"
    /\ loc[c].routing
    /\ clearSession(browsers)
    /\ Goto(c, "gp_creds")
    /\ hist' = [hist EXCEPT ![c].reconFailed = "route"]
    /\ running' = c
    /\ lastRequest' = NoRequest /\ lastResponse' = NoResponse /\ UNCHANGED <<now, ticks, pendingQuery, creds, captchaSolver, ex, loc>>

\* this.email etc. are the environment's values or "": TRUE stands for non-empty.
Credentials == [email : BOOLEAN, password : BOOLEAN,
                browserbaseApiKey : BOOLEAN, browserbaseProjectId : BOOLEAN]
AllCredentials == [email |-> TRUE, password |-> TRUE,
                   browserbaseApiKey |-> TRUE, browserbaseProjectId |-> TRUE]
NoCredentials == [email |-> FALSE, password |-> FALSE,
                  browserbaseApiKey |-> FALSE, browserbaseProjectId |-> FALSE]

\* A check that asks for the account only.
MissingCredsAccountOnly(cr) == ~cr.email \/ ~cr.password

\* !this.email || !this.password || !this.browserbaseApiKey || !this.browserbaseProjectId
MissingCredsTest(cr) ==
    ~cr.email \/ ~cr.password \/ ~cr.browserbaseApiKey \/ ~cr.browserbaseProjectId

\* Step 3: the credential check, then the login loop starts with i = 1.
GpCreds(c) ==
    /\ running = c /\ pc[c] = "gp_creds"
    /\ IF MissingCredsTest(creds)
       THEN /\ loc' = [loc EXCEPT ![c].result = ErrorResult(MissingCreds),
                                  ![c].saved = NoSession, ![c].probed = 0,
                                  ![c].browser = 0, ![c].routing = FALSE]
            /\ Goto(c, "gp_throw")
       ELSE /\ loc' = [loc EXCEPT ![c].i = 1]
            /\ Goto(c, "gp_loop")
    /\ lastRequest' = NoRequest /\ lastResponse' = NoResponse /\ UNCHANGED <<now, ticks, sessionFile, activeBrowser, activePage, routeInstalled,
                   pendingQuery, creds, captchaSolver, browsers, reqs, reads, ex,
                   running, hist>>

\* The loop head: another login() or the login-failed error.
GpLoop(c) ==
    /\ running = c /\ pc[c] = "gp_loop"
    /\ IF LoginLoopContinues(loc[c].i)
       THEN /\ Goto(c, "lg_start")
            /\ hist' = [hist EXCEPT ![c].steps = Append(@, "login"),
                                    ![c].nLogin = @ + 1,
                                    ![c].totLogin = IF hist[c].tally THEN @ + 1 ELSE @,
                                    ![c].filled = FALSE,
                                    ![c].submitted = FALSE, ![c].tsDelays = 0,
                                    ![c].tsVia = "", ![c].serviceThrew = FALSE,
                                    ![c].tsOk = FALSE, ![c].lgSaved = FALSE,
                                    ![c].lgEnd = "", ![c].refilled = {}]
            /\ UNCHANGED loc
       ELSE /\ loc' = [loc EXCEPT ![c].result = ErrorResult(LoginFailed),
                                  ![c].saved = NoSession, ![c].probed = 0,
                                  ![c].browser = 0, ![c].routing = FALSE, ![c].i = 0]
            /\ Goto(c, "gp_throw")
            /\ hist' = [hist EXCEPT ![c].tsDelays = 0, ![c].tsVia = "",
                                    ![c].serviceThrew = FALSE,
                                    ![c].lgSaved = FALSE, ![c].lgEnd = ""]
    /\ lastRequest' = NoRequest /\ lastResponse' = NoResponse /\ UNCHANGED <<now, ticks, sessionFile, activeBrowser, activePage, routeInstalled,
                   pendingQuery, creds, captchaSolver, browsers, reqs, reads, ex,
                   running>>

\* login() ended without a page, by `return null` ("null") or by an exception
\* ("threw"): if (page) is false, or catch (e) { log }; then i++
LoginEnds(c, how) ==
    /\ Goto(c, "gp_loop")
    /\ loc' = [loc EXCEPT ![c].i = @ + 1, ![c].tsI = 0, ![c].fields = ""]
    /\ hist' = [hist EXCEPT ![c].nFailed = @ + 1, ![c].tsDelays = 0, ![c].tsVia = "",
                            ![c].serviceThrew = FALSE, ![c].lgEnd = how,
                            ![c].refilled = {}]
    /\ running' = c

\* login() threw: catch, i++
LoginFail(c) == LoginEnds(c, "threw")


\* ------------------------------------------------------------------- login
\* if (activeBrowser) { try { await activeBrowser.close(); } catch {} }
\* const browser = await chromium.connectOverCDP(this.wsUrl)
LgStart(c) ==
    /\ running = c /\ pc[c] = "lg_start"
    /\ IF activeBrowser # 0
       THEN /\ browsers' = CloseBrowser(browsers, activeBrowser)
            /\ reqs' = DropRequests(reqs, activeBrowser)
            /\ reads' = DropReads(reads, activeBrowser)
            /\ Goto(c, "lg_close")
       ELSE /\ Goto(c, "lg_connect")
            /\ UNCHANGED <<browsers, reqs, reads>>
    /\ running' = 0
    /\ lastRequest' = NoRequest /\ lastResponse' = NoResponse /\ UNCHANGED <<now, ticks, sessionFile, activeBrowser, activePage, routeInstalled,
                   pendingQuery, creds, captchaSolver, ex, loc, hist>>

\* close() settled; connectOverCDP(this.wsUrl) is started
LgClose(c) ==
    /\ running = 0 /\ pc[c] = "lg_close"
    /\ Goto(c, "lg_connect")
    /\ lastRequest' = NoRequest /\ lastResponse' = NoResponse /\ UNCHANGED <<now, ticks, sessionFile, activeBrowser, activePage, routeInstalled,
                   pendingQuery, creds, captchaSolver, browsers, reqs, reads, ex,
                   running, loc, hist>>

\* connectOverCDP (or ctx.newPage) throws: login() throws
LgConnectThrows(c) ==
    /\ running = 0 /\ pc[c] = "lg_connect"
    /\ LoginFail(c)
    /\ lastRequest' = NoRequest /\ lastResponse' = NoResponse /\ UNCHANGED <<now, ticks, sessionFile, activeBrowser, activePage, routeInstalled,
                   pendingQuery, creds, captchaSolver, browsers, reqs, reads, ex>>

\* activeBrowser = browser; activePage = page; page.goto(login) is started
LgConnectOk(c) ==
    /\ running = 0 /\ pc[c] = "lg_connect"
    /\ HasFreeBrowser
    /\ LET b == NewBrowser IN
         /\ browsers' = [browsers EXCEPT ![b].state = "open"]
         /\ activeBrowser' = b
         /\ activePage' = b
         /\ loc' = [loc EXCEPT ![c].browser = b]
    /\ Goto(c, "lg_goto")
    /\ lastRequest' = NoRequest /\ lastResponse' = NoResponse /\ UNCHANGED <<now, ticks, sessionFile, routeInstalled, pendingQuery, creds, captchaSolver,
                   reqs, reads, ex, running, hist>>

\* page.goto(login, 60s) or waitForTimeout(5000) throws: login() throws
LgGotoThrows(c) ==
    /\ running = 0 /\ pc[c] = "lg_goto"
    /\ LoginFail(c)
    /\ lastRequest' = NoRequest /\ lastResponse' = NoResponse /\ UNCHANGED <<now, ticks, sessionFile, activeBrowser, activePage, routeInstalled,
                   pendingQuery, creds, captchaSolver, browsers, reqs, reads, ex>>

\* the form is up: solveTurnstile(page) is called
LgGotoOk(c) ==
    /\ running = 0 /\ pc[c] = "lg_goto"
    /\ browsers[loc[c].browser].state = "open"
    /\ Goto(c, "ts_start")
    /\ running' = c
    /\ lastRequest' = NoRequest /\ lastResponse' = NoResponse /\ UNCHANGED <<now, ticks, sessionFile, activeBrowser, activePage, routeInstalled,
                   pendingQuery, creds, captchaSolver, browsers, reqs, reads, ex, loc,
                   hist>>

\* A login() that goes on to the form whatever solveTurnstile returned.
AfterTurnstileAlwaysFills(turnstileOk) == "lg_fill"

\* const turnstileOk = await this.solveTurnstile(page);
\* if (!turnstileOk) return null;
AfterTurnstile(turnstileOk) == IF turnstileOk THEN "lg_fill" ELSE "gp_loop"

\* ---------------------------------------------------------- solveTurnstile
TURNSTILE_POLLS == 30

\* A polling loop that gives up after its first check.
PollOnce(i) == i < 1

\* await page.waitForTimeout(2000), in milliseconds
POLL_DELAY_MS == 2000

\* A polling loop that makes one check more.
PollContinuesOneMore(i) == i <= TURNSTILE_POLLS

\* for (let i = 0; i < 30; i++)
PollContinues(i) == i < TURNSTILE_POLLS

\* if (this.captchaSolver) { try { sitekey ...; cloudflareTurnstile(...) } }
TsStart(c) ==
    /\ running = c /\ pc[c] = "ts_start"
    /\ hist' = [hist EXCEPT ![c].tsDelays = 0, ![c].tsVia = "",
                            ![c].serviceThrew = FALSE]
    /\ IF captchaSolver
       THEN Goto(c, "ts_service") /\ running' = 0
       ELSE Goto(c, "ts_natural") /\ UNCHANGED running
    /\ lastRequest' = NoRequest /\ lastResponse' = NoResponse /\ UNCHANGED <<now, ticks, sessionFile, activeBrowser, activePage, routeInstalled,
                   pendingQuery, creds, captchaSolver, browsers, reqs, reads, ex, loc>>

\* the sitekey evaluate or the solving-service call throws: catch, fall back
TsServiceThrows(c) ==
    /\ running = 0 /\ pc[c] = "ts_service"
    /\ hist' = [hist EXCEPT ![c].serviceThrew = TRUE]
    /\ Goto(c, "ts_natural")
    /\ running' = c
    /\ lastRequest' = NoRequest /\ lastResponse' = NoResponse /\ UNCHANGED <<now, ticks, sessionFile, activeBrowser, activePage, routeInstalled,
                   pendingQuery, creds, captchaSolver, browsers, reqs, reads, ex, loc>>

\* the service returned a token: the injecting evaluate is started
TsServiceOk(c) ==
    /\ running = 0 /\ pc[c] = "ts_service"
    /\ Goto(c, "ts_inject")
    /\ lastRequest' = NoRequest /\ lastResponse' = NoResponse /\ UNCHANGED <<now, ticks, sessionFile, activeBrowser, activePage, routeInstalled,
                   pendingQuery, creds, captchaSolver, browsers, reqs, reads, ex,
                   running, loc, hist>>

\* the injecting evaluate throws before any wait: catch, fall back
TsInjectThrows(c) ==
    /\ running = 0 /\ pc[c] = "ts_inject"
    /\ Goto(c, "ts_natural")
    /\ running' = c
    /\ lastRequest' = NoRequest /\ lastResponse' = NoResponse /\ UNCHANGED <<now, ticks, sessionFile, activeBrowser, activePage, routeInstalled,
                   pendingQuery, creds, captchaSolver, browsers, reqs, reads, ex, loc,
                   hist>>

\* token injected, waitForTimeout(2000), then the submit control is read:
\* enabled -> return true; disabled, or the read throws -> fall back
TsInjectChecked(c) ==
    /\ running = 0 /\ pc[c] = "ts_inject"
    /\ \E enabled \in BOOLEAN :
         /\ hist' = [hist EXCEPT ![c].tsDelays = @ + 1,
                                 ![c].tsVia = IF enabled THEN "service" ELSE @,
                                 ![c].tsOk = enabled]
         /\ Goto(c, IF enabled THEN AfterTurnstile(TRUE) ELSE "ts_natural")
         /\ running' = IF enabled THEN 0 ELSE c
    /\ lastRequest' = NoRequest /\ lastResponse' = NoResponse /\ UNCHANGED <<now, ticks, sessionFile, activeBrowser, activePage, routeInstalled,
                   pendingQuery, creds, captchaSolver, browsers, reqs, reads, ex, loc>>

\* "Natural wait": i = 0, the first read of the submit control is started
TsNatural(c) ==
    /\ running = c /\ pc[c] = "ts_natural"
    /\ loc' = [loc EXCEPT ![c].tsI = 0]
    /\ Goto(c, "ts_poll")
    /\ running' = 0
    /\ lastRequest' = NoRequest /\ lastResponse' = NoResponse /\ UNCHANGED <<now, ticks, sessionFile, activeBrowser, activePage, routeInstalled,
                   pendingQuery, creds, captchaSolver, browsers, reqs, reads, ex, hist>>

\* the read finds the control enabled: return true
TsPollEnabled(c) ==
    /\ running = 0 /\ pc[c] = "ts_poll"
    /\ hist' = [hist EXCEPT ![c].tsVia = "poll", ![c].tsOk = TRUE]
    /\ Goto(c, AfterTurnstile(TRUE))
    /\ lastRequest' = NoRequest /\ lastResponse' = NoResponse /\ UNCHANGED <<now, ticks, sessionFile, activeBrowser, activePage, routeInstalled,
                   pendingQuery, creds, captchaSolver, browsers, reqs, reads, ex,
                   running, loc>>

\* the read finds it disabled: waitForTimeout(2000), i++, then the next read or,
\* the loop being over, return false (login returns null)
TsPollDisabled(c) ==
    /\ running = 0 /\ pc[c] = "ts_poll"
    /\ hist' = [hist EXCEPT ![c].tsDelays = @ + 1,
                            ![c].tsVia = IF PollContinues(loc[c].tsI + 1) THEN @
                                         ELSE "exhausted",
                            ![c].nFailed = IF \/ PollContinues(loc[c].tsI + 1)
                                              \/ AfterTurnstile(FALSE) # "gp_loop"
                                           THEN @ ELSE @ + 1,
                            ![c].lgEnd = IF \/ PollContinues(loc[c].tsI + 1)
                                            \/ AfterTurnstile(FALSE) # "gp_loop"
                                         THEN @ ELSE "null"]
    /\ IF PollContinues(loc[c].tsI + 1)
       THEN /\ loc' = [loc EXCEPT ![c].tsI = @ + 1]
            /\ Goto(c, "ts_poll")
            /\ UNCHANGED running
       ELSE /\ pc' = [pc EXCEPT ![c] = AfterTurnstile(FALSE)]
            /\ IF AfterTurnstile(FALSE) = "gp_loop"
               THEN /\ loc' = [loc EXCEPT ![c].tsI = 0, ![c].i = @ + 1]
                    /\ running' = c
               ELSE /\ loc' = [loc EXCEPT ![c].tsI = 0]
                    /\ UNCHANGED running
    /\ lastRequest' = NoRequest /\ lastResponse' = NoResponse /\ UNCHANGED <<now, ticks, sessionFile, activeBrowser, activePage, routeInstalled,
                   pendingQuery, creds, captchaSolver, browsers, reqs, reads, ex>>

\* the read throws (page gone): solveTurnstile throws, and so does login()
TsPollThrows(c) ==
    /\ running = 0 /\ pc[c] = "ts_poll"
    /\ LoginFail(c)
    /\ lastRequest' = NoRequest /\ lastResponse' = NoResponse /\ UNCHANGED <<now, ticks, sessionFile, activeBrowser, activePage, routeInstalled,
                   pendingQuery, creds, captchaSolver, browsers, reqs, reads, ex>>


\* ------------------------------------------------------ login, after Turnstile
\* What the read-back of the form can show.
FieldReadings == {"ok", "emailEmpty", "passShort", "bothBad"}

\* A login() that types only the identifier again.
RefillsEmailOnly(f) == IF f \in {"emailEmpty", "bothBad"} THEN {"email"} ELSE {}

\* if (!fields.email) { ...type(this.email) }
\* if (fields.passLen < 5) { ...type(this.password) }
Refills(f) ==
    (IF f \in {"emailEmpty", "bothBad"} THEN {"email"} ELSE {})
      \cup (IF f \in {"passShort", "bothBad"} THEN {"password"} ELSE {})

\* clicking or typing into the form throws: login() throws
LgFillThrows(c) ==
    /\ running = 0 /\ pc[c] = "lg_fill"
    /\ LoginFail(c)
    /\ lastRequest' = NoRequest /\ lastResponse' = NoResponse /\ UNCHANGED <<now, ticks, sessionFile, activeBrowser, activePage, routeInstalled,
                   pendingQuery, creds, captchaSolver, browsers, reqs, reads, ex>>

\* both fields typed, waitForTimeout(300), the form is read back; the refills the
\* reading asks for and the submitting evaluate follow
LgFillOk(c) ==
    /\ running = 0 /\ pc[c] = "lg_fill"
    /\ browsers[loc[c].browser].state = "open"
    /\ \E f \in FieldReadings : loc' = [loc EXCEPT ![c].fields = f, ![c].tsI = 0]
    /\ hist' = [hist EXCEPT ![c].filled = TRUE, ![c].tsDelays = 0, ![c].tsVia = "",
                            ![c].serviceThrew = FALSE]
    /\ Goto(c, "lg_verify")
    /\ lastRequest' = NoRequest /\ lastResponse' = NoResponse /\ UNCHANGED <<now, ticks, sessionFile, activeBrowser, activePage, routeInstalled,
                   pendingQuery, creds, captchaSolver, browsers, reqs, reads, ex,
                   running>>

\* a refill or the submitting evaluate throws: login() throws
LgVerifyThrows(c) ==
    /\ running = 0 /\ pc[c] = "lg_verify"
    /\ LoginFail(c)
    /\ lastRequest' = NoRequest /\ lastResponse' = NoResponse /\ UNCHANGED <<now, ticks, sessionFile, activeBrowser, activePage, routeInstalled,
                   pendingQuery, creds, captchaSolver, browsers, reqs, reads, ex>>

\* refilled as needed; the first enabled submit button is clicked;
\* page.waitForURL("**/app/**", 25s) is started
LgVerifyOk(c) ==
    /\ running = 0 /\ pc[c] = "lg_verify"
    /\ browsers[loc[c].browser].state = "open"
    /\ hist' = [hist EXCEPT ![c].submitted = TRUE,
                            ![c].refilled = Refills(loc[c].fields)]
    /\ Goto(c, "lg_redirect")
    /\ lastRequest' = NoRequest /\ lastResponse' = NoResponse /\ UNCHANGED <<now, ticks, sessionFile, activeBrowser, activePage, routeInstalled,
                   pendingQuery, creds, captchaSolver, browsers, reqs, reads, ex,
                   running, loc>>

\* A login() that lets the exception of waitForURL escape.
LgRedirectThrows(c) ==
    /\ running = 0 /\ pc[c] = "lg_redirect"
    /\ LoginEnds(c, "threw")
    /\ lastRequest' = NoRequest /\ lastResponse' = NoResponse /\ UNCHANGED <<now, ticks, sessionFile, activeBrowser, activePage, routeInstalled,
                   pendingQuery, creds, captchaSolver, browsers, reqs, reads, ex>>

\* waitForURL throws: catch { return null; }
LgRedirectFails(c) ==
    /\ running = 0 /\ pc[c] = "lg_redirect"
    /\ LoginEnds(c, "null")
    /\ lastRequest' = NoRequest /\ lastResponse' = NoResponse /\ UNCHANGED <<now, ticks, sessionFile, activeBrowser, activePage, routeInstalled,
                   pendingQuery, creds, captchaSolver, browsers, reqs, reads, ex>>

\* redirected: saveSession(this.wsUrl); await this.installRoutes(page)
LgRedirectOk(c) ==
    /\ running = 0 /\ pc[c] = "lg_redirect"
    /\ browsers[loc[c].browser].state = "open"
    /\ sessionFile' = saveSession("wsUrl", now)
    /\ StartInstallRoutes(c, loc[c].browser)
    /\ hist' = [hist EXCEPT ![c].savedAt = now, ![c].savedRef = "wsUrl",
                            ![c].lgSaved = TRUE]
    /\ browsers' = [browsers EXCEPT ![loc[c].browser].valid = TRUE]
    /\ Goto(c, "lg_route")
    /\ lastRequest' = NoRequest /\ lastResponse' = NoResponse /\ UNCHANGED <<now, ticks, activeBrowser, activePage, routeInstalled, pendingQuery, creds,
                   captchaSolver, reqs, reads, ex, running>>

\* installRoutes resumes; return page (login), if (page) return page (getPage)
LgRouteOk(c) ==
    /\ running = 0 /\ pc[c] = "lg_route"
    /\ IF loc[c].routing
       THEN /\ browsers' = [browsers EXCEPT ![loc[c].browser].routes = @ + 1]
            /\ routeInstalled' = TRUE
       ELSE UNCHANGED <<browsers, routeInstalled>>
    /\ loc' = [loc EXCEPT ![c].page = loc[c].browser, ![c].browser = 0,
                          ![c].routing = FALSE, ![c].i = 0, ![c].fields = "",
                          ![c].saved = NoSession, ![c].probed = 0]
    /\ hist' = [hist EXCEPT ![c].won = "login", ![c].refilled = {}]
    /\ Goto(c, "gp_return")
    /\ running' = c
    /\ lastRequest' = NoRequest /\ lastResponse' = NoResponse /\ UNCHANGED <<now, ticks, sessionFile, activeBrowser, activePage, pendingQuery, creds,
                   captchaSolver, reqs, reads, ex>>

\* page.route rejects (the target closed meanwhile): login() throws
LgRouteThrows(c) ==
    /\ running = 0 /\ pc[c] = "lg_route"
    /\ loc[c].routing
    /\ LoginFail(c)
    /\ lastRequest' = NoRequest /\ lastResponse' = NoResponse /\ UNCHANGED <<now, ticks, sessionFile, activeBrowser, activePage, routeInstalled,
                   pendingQuery, creds, captchaSolver, browsers, reqs, reads, ex>>


\* ---------------------------------------------------- request interception
\* URLs the page's traffic goes to: two endpoints of the protected host, and the
\* site itself.
Urls == {GRAPHQL_URL, CUSTOMER_GRAPHQL_URL, "www/app/home"}

\* url.includes("core-api-customer")
IncludesHost(url) == url \in {GRAPHQL_URL, CUSTOMER_GRAPHQL_URL}

\* page.route("**/core-api-customer.k8s.east.thefarmersdog.com/**", handleRoute)
RouteMatches(url) == url \in {GRAPHQL_URL, CUSTOMER_GRAPHQL_URL}

\* query() passes GRAPHQL_URL, queryCustomer() passes CUSTOMER_GRAPHQL_URL
TargetUrl(method) == IF method = "query" THEN GRAPHQL_URL ELSE CUSTOMER_GRAPHQL_URL

\* A slot that is only assigned when it is empty.
SlotKeepFirst(slot, pq) == IF slot = <<>> THEN <<pq>> ELSE slot

\* A slot that queues: the new query is put behind the ones already there.
SlotAppend(slot, pq) == Append(slot, pq)

\* pendingQuery = { targetUrl, query, variables, resolve, reject }
SlotAssign(slot, pq) == <<pq>>

\* A handler that continues the request it swaps twice.
handleRouteContinuesTwice(slot, url) ==
    IF slot # <<>> /\ IncludesHost(url)
    THEN [slot |-> <<>>, signalled |-> slot[1].owner,
          url |-> slot[1].targetUrl, body |-> slot[1].payload, continues |-> 2]
    ELSE [slot |-> slot, signalled |-> 0, url |-> url, body |-> AppBody, continues |-> 1]

\* A handler that replaces the body and leaves the URL of the request.
handleRouteKeepsUrl(slot, url) ==
    IF slot # <<>> /\ IncludesHost(url)
    THEN [slot |-> <<>>, signalled |-> slot[1].owner,
          url |-> url, body |-> slot[1].payload, continues |-> 1]
    ELSE [slot |-> slot, signalled |-> 0, url |-> url, body |-> AppBody, continues |-> 1]

\* A handler that leaves the query in the slot when it swaps.
handleRouteKeepsSlot(slot, url) ==
    IF slot # <<>> /\ IncludesHost(url)
    THEN [slot |-> slot, signalled |-> slot[1].owner,
          url |-> slot[1].targetUrl, body |-> slot[1].payload, continues |-> 1]
    ELSE [slot |-> slot, signalled |-> 0, url |-> url, body |-> AppBody, continues |-> 1]

\* A handler that continues only the requests it swaps.
handleRouteSwapOnly(slot, url) ==
    IF slot # <<>> /\ IncludesHost(url)
    THEN [slot |-> <<>>, signalled |-> slot[1].owner,
          url |-> slot[1].targetUrl, body |-> slot[1].payload, continues |-> 1]
    ELSE [slot |-> slot, signalled |-> 0, url |-> url, body |-> AppBody, continues |-> 0]

\* A handler that continues every request as it came.
handleRouteNoSwap(slot, url) ==
    [slot |-> slot, signalled |-> 0, url |-> url, body |-> AppBody, continues |-> 1]

\* handleRoute(route): what becomes of the slot, whose resolve() is called, and
\* the route.continue() calls it makes (url and postData of the forwarded request).
handleRoute(slot, url) ==
    IF slot # <<>> /\ IncludesHost(url)
    THEN [slot |-> <<>>, signalled |-> slot[1].owner,
          url |-> slot[1].targetUrl, body |-> slot[1].payload, continues |-> 1]
    ELSE [slot |-> slot, signalled |-> 0, url |-> url, body |-> AppBody, continues |-> 1]

\* The requests in flight are tracked up to MaxRequests of them.
HasFreeReq == Cardinality(reqs) < MaxRequests
\* A request on the network: where it goes, what it carries, and, once the server
\* has answered, whether the answer has a data field.
Forwarded(b, url, body) ==
    [state |-> "forwarded", page |-> b, url |-> url, body |-> body, hasData |-> FALSE]

\* The traffic of page b can change what a call does: a query waits in the slot
\* of a routed page, or the listener of an unsettled call is on the page.
Observed(b) ==
    \/ browsers[b].routes > 0 /\ pendingQuery # <<>>
    \/ \E e \in ExecIds : ex[e].listening /\ ex[e].page = b /\ ex[e].state = "waiting"

\* The page issues a request to the protected host and a route is registered on
\* the page: handleRoute runs.
RoutedRequest(b, url) ==
    /\ running = 0
    /\ browsers[b].state = "open" /\ browsers[b].routes > 0
    /\ Observed(b)
    /\ RouteMatches(url)
    /\ HasFreeReq
    /\ LET h == handleRoute(pendingQuery, url) IN
         /\ pendingQuery' = h.slot
         /\ ex' = IF h.signalled = 0 THEN ex
                  ELSE [ex EXCEPT ![h.signalled].swapped = TRUE,
                                  ![h.signalled].sent = @ + h.continues]
         /\ reqs' = IF h.continues = 0 THEN reqs
                    ELSE reqs \cup {Forwarded(b, h.url, h.body)}
         /\ lastRequest' = [origUrl |-> url, pendingAtArrival |-> pendingQuery # <<>>,
                          handled |-> TRUE, url |-> h.url, body |-> h.body, continues |-> h.continues,
                          signalled |-> h.signalled]
    /\ lastResponse' = NoResponse
    /\ UNCHANGED <<now, ticks, sessionFile, activeBrowser, activePage, routeInstalled,
                   creds, captchaSolver, browsers, reads, running, pc, loc, hist>>

\* A request no route matches (another host, or no route on the page) leaves the
\* browser as the application wrote it; handleRoute does not run.
PlainRequest(b, url) ==
    /\ running = 0
    /\ browsers[b].state = "open" /\ Observed(b)
    /\ ~(browsers[b].routes > 0 /\ RouteMatches(url))
    /\ IncludesHost(url) => HasFreeReq
    /\ reqs' = IF IncludesHost(url) THEN reqs \cup {Forwarded(b, url, AppBody)}
               ELSE reqs
    /\ lastRequest' = [origUrl |-> url, pendingAtArrival |-> pendingQuery # <<>>,
                       handled |-> FALSE, url |-> url, body |-> AppBody, continues |-> 0, signalled |-> 0]
    /\ lastResponse' = NoResponse
    /\ UNCHANGED <<now, ticks, sessionFile, activeBrowser, activePage, routeInstalled,
                   pendingQuery, creds, captchaSolver, browsers, reads, ex, running, pc,
                   loc, hist>>

\* A listener that reads every response of the protected host, swapped or not.
ListenerReadsUnswapped(e, r) ==
    /\ browsers[r.page].state = "open"
    /\ ex[e].listening /\ ex[e].page = r.page
    /\ IncludesHost(r.url)

\* responseListenerRef up to its await: if (!swapped) return;
\* if (!r.url().includes("core-api-customer")) return; r.text() is started
ListenerReads(e, r) ==
    /\ browsers[r.page].state = "open"
    /\ ex[e].listening /\ ex[e].page = r.page
    /\ ex[e].swapped
    /\ IncludesHost(r.url)

\* The response to request r arrives: the page emits "response" to its listeners.
\* A request nobody reads the response of is forgotten.
Respond(r, hasData) ==
    /\ running = 0
    /\ r \in reqs /\ r.state = "forwarded"
    /\ LET readers == {e \in ExecIds : ListenerReads(e, r)}
           answered == [r EXCEPT !.state = "responded", !.hasData = hasData]
       IN /\ reqs' = (reqs \ {r}) \cup (IF readers = {} THEN {} ELSE {answered})
          /\ reads' = reads \cup {<<e, answered>> : e \in readers}
          /\ lastResponse' = [page |-> r.page, url |-> r.url, hasData |-> hasData,
                               readers |-> readers]
    /\ lastRequest' = NoRequest /\ UNCHANGED <<now, ticks, sessionFile, activeBrowser, activePage, routeInstalled,
                   pendingQuery, creds, captchaSolver, browsers, ex, running, pc, loc,
                   hist>>

\* A listener that resolves without clearTimeout.
ReadDoneKeepsTimer(e, r) ==
    /\ running = 0
    /\ <<e, r>> \in reads
    /\ reads' = reads \ {<<e, r>>}
    /\ reqs' = IF \E x \in reads : x[1] # e /\ x[2] = r THEN reqs ELSE reqs \ {r}
    /\ ex' = IF r.hasData
             THEN [ex EXCEPT ![e].listening = FALSE,
                             ![e].state = IF @ = "waiting" THEN "resolved" ELSE @,
                             ![e].answers = IF ex[e].state = "waiting"
                                            THEN r.body ELSE @]
             ELSE ex
    /\ lastRequest' = NoRequest /\ lastResponse' = NoResponse
    /\ UNCHANGED <<now, ticks, sessionFile, activeBrowser, activePage, routeInstalled,
                   pendingQuery, creds, captchaSolver, browsers, running, pc, loc, hist>>

\* responseListenerRef after `await r.text()`: JSON.parse; if (json.data)
\* { clearTimeout; removeListener; origResolve(json.data) }; any throw is swallowed
ReadDone(e, r) ==
    /\ running = 0
    /\ <<e, r>> \in reads
    /\ reads' = reads \ {<<e, r>>}
    /\ reqs' = IF \E x \in reads : x[1] # e /\ x[2] = r THEN reqs ELSE reqs \ {r}
    /\ ex' = IF r.hasData
             THEN [ex EXCEPT ![e].timer = FALSE, ![e].listening = FALSE,
                             ![e].state = IF @ = "waiting" THEN "resolved" ELSE @,
                             ![e].answers = IF ex[e].state = "waiting"
                                            THEN r.body ELSE @]
             ELSE ex
    /\ lastRequest' = NoRequest /\ lastResponse' = NoResponse /\ UNCHANGED <<now, ticks, sessionFile, activeBrowser, activePage, routeInstalled,
                   pendingQuery, creds, captchaSolver, browsers, running, pc, loc, hist>>

\* A timer that rejects and leaves the slot as it is.
TimerFireOnlyRejects(e) ==
    /\ running = 0
    /\ ex[e].timer
    /\ ex' = [ex EXCEPT ![e].timer = FALSE,
                        ![e].state = IF @ = "waiting" THEN "rejected" ELSE @,
                        ![e].err = IF ex[e].state = "waiting" THEN QueryTimeout ELSE @]
    /\ lastRequest' = NoRequest /\ lastResponse' = NoResponse /\ UNCHANGED <<now, ticks, sessionFile, activeBrowser, activePage, routeInstalled, creds,
                   captchaSolver, browsers, reqs, reads, running, pc, loc, hist, pendingQuery>>

\* A timer that empties the slot and rejects nothing.
TimerFireOnlyClears(e) ==
    /\ running = 0
    /\ ex[e].timer
    /\ pendingQuery' = <<>>
    /\ ex' = [ex EXCEPT ![e].timer = FALSE]
    /\ lastRequest' = NoRequest /\ lastResponse' = NoResponse /\ UNCHANGED <<now, ticks, sessionFile, activeBrowser, activePage, routeInstalled, creds,
                   captchaSolver, browsers, reqs, reads, running, pc, loc, hist>>

\* setTimeout(() => { pendingQuery = null; reject(new Error("Query timeout")) }, 30000)
TimerFire(e) ==
    /\ running = 0
    /\ ex[e].timer
    /\ pendingQuery' = <<>>
    /\ ex' = [ex EXCEPT ![e].timer = FALSE,
                        ![e].state = IF @ = "waiting" THEN "rejected" ELSE @,
                        ![e].err = IF ex[e].state = "waiting" THEN QueryTimeout ELSE @]
    /\ lastRequest' = NoRequest /\ lastResponse' = NoResponse /\ UNCHANGED <<now, ticks, sessionFile, activeBrowser, activePage, routeInstalled, creds,
                   captchaSolver, browsers, reqs, reads, running, pc, loc, hist>>


\* ------------------------------------------------- query / queryCustomer
Methods == {"query", "queryCustomer"}
NullPageError == "Cannot read properties of null"

\* (e as Error).message?.includes(sub), for the messages that can arise
MessageIncludes(msg, sub) == <<msg, sub>> \in {<<QueryTimeout, "timeout">>}

\* A test that asks neither for the flag nor for the message.
RetryableAlways(retry, msg) == TRUE

\* if (retry && (message.includes("Target closed") || message.includes("timeout")))
Retryable(retry, msg) ==
    retry /\ (MessageIncludes(msg, "Target closed") \/ MessageIncludes(msg, "timeout"))

\* A try block that also encloses the retried execution.
CatchesEvery(attempt) == TRUE

\* try { return await executeInterceptedQuery(...) } catch (e) { ... }: only the
\* first execution of a call is inside the try block
Catches(attempt) == attempt = 1

\* A tool handler calls query(queryStr, variables, retry) or queryCustomer(...):
\* const page = await this.getPage().  Callers start in the order of their ids.
StartQuery(c, method, retry) ==
    /\ running = 0 /\ pc[c] = "idle"
    /\ \A d \in Callers : d < c => pc[d] # "idle"
    /\ loc' = [loc EXCEPT ![c].method = method, ![c].retry = retry, ![c].attempt = 1]
    /\ CallGetPage(c)
    /\ lastRequest' = NoRequest /\ lastResponse' = NoResponse /\ UNCHANGED <<now, ticks, sessionFile, activeBrowser, activePage, routeInstalled,
                   pendingQuery, creds, captchaSolver, browsers, reqs, reads, ex>>

\* No other call is between its start and its end.
NoCallInFlight == \A d \in Callers : pc[d] \in {"idle", "done"}

\* The hosting process hands over one tool call at a time.
StartQuerySerial(c, method, retry) ==
    /\ NoCallInFlight
    /\ StartQuery(c, method, retry)

\* Browser b is open and nothing but the finished call c still holds it: no
\* later step of the program can reach it.
Orphaned(c, b) ==
    /\ browsers[b].state = "open"
    /\ b \notin {activeBrowser, activePage}
    /\ \A d \in Callers \ {c} : b \notin {loc[d].page, loc[d].probed, loc[d].browser}
    /\ \A e \in ExecIds \ {ExecId(c, 1), ExecId(c, 2)} : ex[e].page # b

\* The call has returned to the tool handler: its frame and its promises are
\* garbage, and the caller is free for the next tool call.  Browsers nothing can
\* reach any more, and responses nobody is left to read, are no longer tracked.
Finish(c) ==
    /\ running = 0 /\ pc[c] = "done"
    /\ ~ex[ExecId(c, 1)].timer /\ ~ex[ExecId(c, 2)].timer
    /\ Goto(c, "idle")
    /\ loc' = [loc EXCEPT ![c] = InitLoc]
    /\ hist' = [hist EXCEPT ![c] = [InitHist EXCEPT !.tally = hist[c].tally]]
    /\ ex' = [e \in ExecIds |->
                 IF e \in {ExecId(c, 1), ExecId(c, 2)} THEN NoExec ELSE ex[e]]
    /\ reads' = {x \in reads : x[1] \notin {ExecId(c, 1), ExecId(c, 2)}}
    /\ browsers' = [b \in BrowserIds |->
                 IF Orphaned(c, b) THEN NoBrowser ELSE browsers[b]]
    /\ reqs' = {r \in reqs :
                 /\ r.state = "responded" =>
                       \E x \in reads : x[2] = r /\ x[1] \notin {ExecId(c, 1), ExecId(c, 2)}
                 /\ ~Orphaned(c, r.page)}
    /\ lastRequest' = NoRequest /\ lastResponse' = NoResponse
    /\ UNCHANGED <<now, ticks, sessionFile, activeBrowser, activePage, routeInstalled,
                   pendingQuery, creds, captchaSolver, running>>

\* getPage returned: executeInterceptedQuery(page, targetUrl, queryStr, variables)
\* runs its executor: the timer, the slot, the response listener, page.goto.
GpReturn(c) ==
    /\ running = c /\ pc[c] = "gp_return"
    /\ LET e == ExecId(c, loc[c].attempt)
           p == loc[c].page
       IN /\ pendingQuery' = SlotAssign(pendingQuery,
                 [owner |-> e, targetUrl |-> TargetUrl(loc[c].method), payload |-> c])
          /\ ex' = [x \in ExecIds |->
                 IF x = e
                 THEN IF p # 0
                      THEN [state |-> "waiting", page |-> p, swapped |-> FALSE,
                            timer |-> TRUE, listening |-> TRUE, answers |-> 0,
                            err |-> "", stomped |-> FALSE, sent |-> 0]
                      ELSE [state |-> "rejected", page |-> 0, swapped |-> FALSE,
                            timer |-> TRUE, listening |-> FALSE, answers |-> 0,
                            err |-> NullPageError, stomped |-> FALSE, sent |-> 0]
                 ELSE IF pendingQuery # <<>> /\ pendingQuery[1].owner = x
                      THEN [ex[x] EXCEPT !.stomped = TRUE]
                      ELSE ex[x]]
    /\ hist' = [hist EXCEPT ![c] = [InitHist EXCEPT !.nExec = hist[c].nExec + 1,
                                                     !.nGetPage = hist[c].nGetPage,
                                                     !.tally = hist[c].tally,
                                                     !.totLogin = hist[c].totLogin,
                                                     !.totReconnect = hist[c].totReconnect]]
    /\ Goto(c, "ex_wait")
    /\ running' = 0
    /\ lastRequest' = NoRequest /\ lastResponse' = NoResponse /\ UNCHANGED <<now, ticks, sessionFile, activeBrowser, activePage, routeInstalled, creds,
                   captchaSolver, browsers, reqs, reads, loc>>

\* A query() that calls getPage once more when getPage has thrown.
GpThrowRetries(c) ==
    /\ running = c /\ pc[c] = "gp_throw"
    /\ IF hist[c].nGetPage < 3
       THEN CallGetPage(c)
       ELSE Goto(c, "done") /\ running' = 0 /\ UNCHANGED hist
    /\ lastRequest' = NoRequest /\ lastResponse' = NoResponse /\ UNCHANGED <<now, ticks, sessionFile, activeBrowser, activePage, routeInstalled,
                   pendingQuery, creds, captchaSolver, browsers, reqs, reads, ex, loc>>

\* getPage threw (missing credentials, login failed): the call fails with it
GpThrow(c) ==
    /\ running = c /\ pc[c] = "gp_throw"
    /\ Goto(c, "done")
    /\ running' = 0
    /\ lastRequest' = NoRequest /\ lastResponse' = NoResponse /\ UNCHANGED <<now, ticks, sessionFile, activeBrowser, activePage, routeInstalled,
                   pendingQuery, creds, captchaSolver, browsers, reqs, reads, ex, loc,
                   hist>>

\* the execution resolved: return its data
ExResolved(c) ==
    /\ running = 0 /\ pc[c] = "ex_wait"
    /\ ex[ExecId(c, loc[c].attempt)].state = "resolved"
    /\ loc' = [loc EXCEPT ![c].result = DataResult(ex[ExecId(c, loc[c].attempt)].answers)]
    /\ Goto(c, "done")
    /\ lastRequest' = NoRequest /\ lastResponse' = NoResponse /\ UNCHANGED <<now, ticks, sessionFile, activeBrowser, activePage, routeInstalled,
                   pendingQuery, creds, captchaSolver, browsers, reqs, reads, ex,
                   running, hist>>

\* A retry that reacquires without invalidating the session.
ExRetryKeepsSession(c) ==
    /\ running = 0 /\ pc[c] = "ex_wait"
    /\ Catches(loc[c].attempt)
    /\ ex[ExecId(c, loc[c].attempt)].state = "rejected"
    /\ Retryable(loc[c].retry, ex[ExecId(c, loc[c].attempt)].err)
    /\ loc' = [loc EXCEPT ![c].attempt = 2]
    /\ CallGetPage(c)
    /\ lastRequest' = NoRequest /\ lastResponse' = NoResponse
    /\ UNCHANGED <<now, ticks, sessionFile, activeBrowser, activePage, routeInstalled,
                   pendingQuery, creds, captchaSolver, browsers, reqs, reads, ex>>

\* the first execution rejected with a retryable message:
\* clearSession(); const newPage = await this.getPage()
ExRetry(c) ==
    /\ running = 0 /\ pc[c] = "ex_wait"
    /\ Catches(loc[c].attempt)
    /\ ex[ExecId(c, loc[c].attempt)].state = "rejected"
    /\ Retryable(loc[c].retry, ex[ExecId(c, loc[c].attempt)].err)
    /\ clearSession(browsers)
    /\ loc' = [loc EXCEPT ![c].attempt = 2, ![c].cleared = @ + 1]
    /\ CallGetPage(c)
    /\ lastRequest' = NoRequest /\ lastResponse' = NoResponse /\ UNCHANGED <<now, ticks, pendingQuery, creds, captchaSolver, ex>>

\* throw e (first execution, not retryable), or the retried execution rejected
ExThrow(c) ==
    /\ running = 0 /\ pc[c] = "ex_wait"
    /\ LET e == ExecId(c, loc[c].attempt) IN
         /\ ex[e].state = "rejected"
         /\ Catches(loc[c].attempt) => ~Retryable(loc[c].retry, ex[e].err)
         /\ loc' = [loc EXCEPT ![c].result = ErrorResult(ex[e].err)]
    /\ Goto(c, "done")
    /\ lastRequest' = NoRequest /\ lastResponse' = NoResponse /\ UNCHANGED <<now, ticks, sessionFile, activeBrowser, activePage, routeInstalled,
                   pendingQuery, creds, captchaSolver, browsers, reqs, reads, ex,
                   running, hist>>

\* ------------------------------------------------------------------- clock
Tick(d) ==
    /\ running = 0
    /\ ticks < MaxTicks
    /\ ticks' = ticks + 1
    /\ now' = now + d
    /\ lastRequest' = NoRequest /\ lastResponse' = NoResponse /\ UNCHANGED <<sessionFile, activeBrowser, activePage, routeInstalled, pendingQuery,
                   creds, captchaSolver, browsers, reqs, reads, ex, running, pc, loc,
                   hist>>

\* ------------------------------------------------------- the whole program
\* A fresh process: no handles, an empty slot; the session file is whatever an
\* earlier process left.
InitHandles ==
    /\ activeBrowser = 0 /\ activePage = 0 /\ routeInstalled = FALSE
    /\ pendingQuery = <<>>
    /\ browsers = [b \in BrowserIds |-> NoBrowser]
    /\ reqs = {}
    /\ lastRequest = NoRequest
    /\ lastResponse = NoResponse
    /\ reads = {}
    /\ ex = [e \in ExecIds |-> NoExec]
    /\ running = 0
    /\ pc = [c \in Callers |-> "idle"]
    /\ loc = [c \in Callers |-> InitLoc]

InitProcess ==
    /\ InitHandles
    /\ hist = [c \in Callers |-> InitHist]

Init ==
    /\ InitProcess
    /\ ticks = 0
    /\ now = StartTime
    /\ sessionFile \in {FileAbsent} \cup {SavedSession("wsUrl", t) : t \in {0, 1, 2}}
    /\ creds \in Credentials
    /\ captchaSolver \in BOOLEAN

GetPageStep(c) ==
    \/ GpStart(c) \/ GpProbeOk(c) \/ GpProbeThrows(c) \/ GpLoad(c)
    \/ GpConnectThrows(c) \/ GpConnectOk(c)
    \/ GpReconProbeOk(c) \/ GpReconProbeThrows(c)
    \/ GpReconRouteOk(c) \/ GpReconRouteThrows(c)
    \/ GpCreds(c) \/ GpLoop(c)

TurnstileStep(c) ==
    \/ TsStart(c) \/ TsServiceThrows(c) \/ TsServiceOk(c)
    \/ TsInjectThrows(c) \/ TsInjectChecked(c)
    \/ TsNatural(c) \/ TsPollEnabled(c) \/ TsPollDisabled(c) \/ TsPollThrows(c)

LoginStep(c) ==
    \/ LgStart(c) \/ LgClose(c) \/ LgConnectThrows(c) \/ LgConnectOk(c)
    \/ LgGotoThrows(c) \/ LgGotoOk(c)
    \/ LgFillThrows(c) \/ LgFillOk(c) \/ LgVerifyThrows(c) \/ LgVerifyOk(c)
    \/ LgRedirectFails(c) \/ LgRedirectOk(c) \/ LgRouteOk(c) \/ LgRouteThrows(c)

QueryStep(c) ==
    \/ GpReturn(c) \/ GpThrow(c) \/ ExResolved(c) \/ ExRetry(c) \/ ExThrow(c)

BrokerStep ==
    \/ \E b \in BrowserIds, u \in Urls : RoutedRequest(b, u)
    \/ \E b \in BrowserIds, u \in Urls : PlainRequest(b, u)
    \/ \E r \in reqs, d \in BOOLEAN : Respond(r, d)
    \/ \E x \in reads : ReadDone(x[1], x[2])
    \/ \E e \in ExecIds : TimerFire(e)

Next ==
    \/ \E m \in Methods, r \in BOOLEAN : StartQuerySerial(1, m, r)
    \/ \E c \in Callers : GetPageStep(c)
    \/ \E c \in Callers : LoginStep(c)
    \/ \E c \in Callers : TurnstileStep(c)
    \/ \E c \in Callers : QueryStep(c)
    \/ \E c \in Callers : Finish(c)
    \/ BrokerStep

Spec == Init /\ [][Next]_vars

\* Tool calls that overlap: a second call may start while the first is suspended.
\* The process holds no credentials and finds an unexpired descriptor, so a
\* session is only ever obtained by reconnecting; every caller makes one call.
InitOverlap ==
    /\ InitProcess
    /\ ticks = 0
    /\ now = StartTime
    /\ sessionFile = SavedSession("wsUrl", 2)
    /\ creds = NoCredentials
    /\ captchaSolver = FALSE

\* A further tool call arrives while the calls before it wait for their responses.
StartQueryOverlapping(c, method, retry) ==
    /\ \A d \in Callers : d < c => pc[d] = "ex_wait"
    /\ StartQuery(c, method, retry)

NextOverlap ==
    \/ \E c \in Callers, m \in Methods, r \in BOOLEAN : StartQueryOverlapping(c, m, r)
    \/ \E c \in Callers :
         \/ GpStart(c) \/ GpProbeOk(c) \/ GpProbeThrows(c) \/ GpLoad(c)
         \/ GpConnectThrows(c) \/ GpConnectOk(c)
         \/ GpReconProbeOk(c) \/ GpReconProbeThrows(c)
         \/ GpReconRouteOk(c) \/ GpReconRouteThrows(c)
         \/ GpCreds(c)
    \/ \E c \in Callers : QueryStep(c)
    \/ BrokerStep

SpecOverlap == InitOverlap /\ [][NextOverlap]_vars

\* The first tool call of a process that holds credentials, with the clock
\* advancing while the call is suspended.
InitClock ==
    /\ InitProcess
    /\ ticks = 0
    /\ now = StartTime
    /\ sessionFile \in {FileAbsent, SavedSession("wsUrl", 2)}
    /\ creds = AllCredentials
    /\ captchaSolver \in BOOLEAN

NextClock ==
    \/ \E d \in ClockSteps : Tick(d)
    \/ \E m \in Methods : StartQuerySerial(1, m, TRUE)
    \/ GpStart(1) \/ GpLoad(1) \/ GpConnectThrows(1) \/ GpConnectOk(1)
    \/ GpReconProbeOk(1) \/ GpReconProbeThrows(1)
    \/ GpReconRouteOk(1) \/ GpReconRouteThrows(1)
    \/ GpCreds(1) \/ GpLoop(1)
    \/ LoginStep(1)
    \/ TurnstileStep(1)
    \/ GpReturn(1) \/ GpThrow(1)

SpecClock == InitClock /\ [][NextClock]_vars

\* The session store on its own: saveSession, loadSession and clearSession called
\* in any order while the clock advances, on whatever file an earlier process
\* left.  hist records the last write (storeOp, savedRef, savedAt); loc.saved and
\* hist.loadedAt hold the result and the time of the last read after that write.
Endpoints == {"wsUrl", "wsOther"}

InitStore ==
    /\ InitProcess
    /\ ticks = 0
    /\ now = StartTime
    /\ sessionFile \in {FileAbsent, FileMalformed, FileEmpty}
                       \cup {SavedSession("wsOther", t) : t \in {0, 1, 2}}
    /\ creds = AllCredentials
    /\ captchaSolver = FALSE

\* A store whose write leaves a descriptor that is already in the file.
StoreSaveKeepsFirst(c, w) ==
    /\ running = 0 /\ pc[c] = "idle"
    /\ sessionFile' = IF sessionFile.kind = "session" THEN sessionFile
                      ELSE saveSession(w, now)
    /\ hist' = [hist EXCEPT ![c].storeOp = "save", ![c].savedRef = w,
                            ![c].savedAt = now, ![c].loadedAt = 0,
                            ![c].prevRef = hist[c].savedRef]
    /\ loc' = [loc EXCEPT ![c].saved = NoSession]
    /\ lastRequest' = NoRequest /\ lastResponse' = NoResponse
    /\ UNCHANGED <<now, ticks, activeBrowser, activePage, routeInstalled, pendingQuery,
                   creds, captchaSolver, browsers, reqs, reads, ex, running, pc>>

\* saveSession(wsEndpoint)
StoreSave(c, w) ==
    /\ running = 0 /\ pc[c] = "idle"
    /\ sessionFile' = saveSession(w, now)
    /\ hist' = [hist EXCEPT ![c].storeOp = "save", ![c].savedRef = w,
                            ![c].savedAt = now, ![c].loadedAt = 0,
                            ![c].prevRef = hist[c].savedRef]
    /\ loc' = [loc EXCEPT ![c].saved = NoSession]
    /\ lastRequest' = NoRequest /\ lastResponse' = NoResponse
    /\ UNCHANGED <<now, ticks, activeBrowser, activePage, routeInstalled, pendingQuery,
                   creds, captchaSolver, browsers, reqs, reads, ex, running, pc>>

\* const saved = loadSession()
StoreLoad(c) ==
    /\ running = 0 /\ pc[c] = "idle"
    /\ loc' = [loc EXCEPT ![c].saved = loadSession(sessionFile, now)]
    /\ hist' = [hist EXCEPT ![c].loadedAt = now]
    /\ lastRequest' = NoRequest /\ lastResponse' = NoResponse
    /\ UNCHANGED <<now, ticks, sessionFile, activeBrowser, activePage, routeInstalled,
                   pendingQuery, creds, captchaSolver, browsers, reqs, reads, ex,
                   running, pc>>

\* clearSession()
StoreClear(c) ==
    /\ running = 0 /\ pc[c] = "idle"
    /\ clearSession(browsers)
    /\ hist' = [hist EXCEPT ![c].storeOp = "clear", ![c].loadedAt = 0]
    /\ loc' = [loc EXCEPT ![c].saved = NoSession]
    /\ lastRequest' = NoRequest /\ lastResponse' = NoResponse
    /\ UNCHANGED <<now, ticks, pendingQuery, creds, captchaSolver, ex, running, pc>>

NextStore ==
    \/ \E d \in ClockSteps : Tick(d)
    \/ \E w \in Endpoints : StoreSave(1, w)
    \/ StoreLoad(1)
    \/ StoreClear(1)

SpecStore == InitStore /\ [][NextStore]_vars

\* ================================================================ properties

\* C1: the pending slot is empty or holds exactly one query, never a list of
\* queued queries, also when a call assigns it while the query of another call
\* is still waiting in it.
C1_SingleSlot == Len(pendingQuery) <= 1

\* The second call has put its query into the slot while the first call's query
\* had been neither swapped nor timed out.
C1_Witness ==
    /\ pendingQuery # <<>>
    /\ pendingQuery[1].owner = ExecId(2, 1)
    /\ ex[ExecId(1, 1)].state = "waiting"
    /\ ~ex[ExecId(1, 1)].swapped
    /\ ex[ExecId(1, 1)].timer

\* C2: a request to the protected host that handleRoute sees while a query is
\* pending never leaves with the body the application wrote; a request that
\* arrives while no query is pending, or that goes to another host, leaves with
\* the URL and the body the application wrote.
C2_SwapOrPassThrough ==
    lastRequest # NoRequest =>
      /\ (/\ lastRequest.pendingAtArrival
          /\ IncludesHost(lastRequest.origUrl)
          /\ lastRequest.continues > 0) => lastRequest.body # AppBody
      /\ (~lastRequest.pendingAtArrival \/ ~IncludesHost(lastRequest.origUrl)) =>
            /\ lastRequest.url = lastRequest.origUrl
            /\ lastRequest.body = AppBody

\* handleRoute has swapped the pending query of a queryCustomer() call into a
\* request the application sent to the other endpoint.
C2_Witness ==
    /\ lastRequest.pendingAtArrival
    /\ lastRequest.continues = 1
    /\ lastRequest.origUrl = GRAPHQL_URL
    /\ lastRequest.url = CUSTOMER_GRAPHQL_URL
    /\ lastRequest.body = 1

\* C3: a call runs executeInterceptedQuery at most twice and getPage at most
\* twice; when the retried execution fails too, its error is what the call
\* fails with.
C3_RetryAtMostOnce ==
    \A c \in Callers :
      /\ hist[c].nExec <= 2
      /\ hist[c].nGetPage <= 2
      /\ (pc[c] = "done" /\ hist[c].nExec = 2 /\ ex[ExecId(c, 2)].state = "rejected")
            => loc[c].result = ErrorResult(ex[ExecId(c, 2)].err)

\* Both executions of a call have timed out and the call has failed with the
\* second timeout.
C3_Witness ==
    /\ pc[1] = "done"
    /\ hist[1].nExec = 2
    /\ ex[ExecId(1, 1)].err = QueryTimeout
    /\ ex[ExecId(1, 2)].err = QueryTimeout
    /\ loc[1].result = ErrorResult(QueryTimeout)

\* C4: getPage never runs login() more than MAX_LOGIN_RETRIES = 3 times; it
\* fails with the login-failed error only after exactly 3 failed attempts, and
\* after 3 failed attempts it fails with that error.
C4_LoginCeiling ==
    \A c \in Callers :
      /\ MAX_LOGIN_RETRIES = 3
      /\ hist[c].nLogin <= MAX_LOGIN_RETRIES
      /\ loc[c].result = ErrorResult(LoginFailed) =>
            hist[c].nLogin = MAX_LOGIN_RETRIES /\ hist[c].nFailed = MAX_LOGIN_RETRIES
      /\ (pc[c] \in {"gp_throw", "done"} /\ hist[c].nFailed = MAX_LOGIN_RETRIES) =>
            loc[c].result = ErrorResult(LoginFailed)

\* Three login attempts have failed and getPage is throwing the login-failed error.
C4_Witness ==
    /\ pc[1] = "gp_throw"
    /\ hist[1].nLogin = 3
    /\ hist[1].nFailed = 3
    /\ loc[1].result = ErrorResult(LoginFailed)

\* C5: loadSession never returns a descriptor older than the TTL; it returns
\* one that is a millisecond younger than the TTL; and getPage is in its
\* reconnect step only with a descriptor loadSession returned.
C5_NoExpiredDescriptor ==
    \A c \in Callers :
      /\ loc[c].saved # NoSession =>
            hist[c].loadedAt - loc[c].saved.savedAt <= TTL_MS
      /\ pc[c] \in {"gp_connect", "gp_recon_probe", "gp_recon_route"} =>
            loc[c].saved # NoSession
      /\ (pc[c] = "gp_creds" /\ hist[c].nReconnect = 0 /\ sessionFile.kind = "session")
            => now - sessionFile.savedAt > TTL_MS - 1

\* getPage is reconnecting with a descriptor that was one millisecond short of
\* the TTL when it was loaded.
C5_Witness ==
    /\ pc[1] = "gp_connect"
    /\ hist[1].loadedAt - loc[1].saved.savedAt = TTL_MS - 1

\* C6: once the probe of the reconnected page has thrown, loadSession returns
\* null until a login saves a new descriptor, the call makes no second
\* reconnect, and every step it takes after the reconnect is a login.
C6_ProbeFailureInvalidates ==
    \A c \in Callers :
      hist[c].reconFailed = "probe" =>
        /\ hist[c].nReconnect = 1
        /\ hist[c].savedAt = 0 => loadSession(sessionFile, now) = NoSession
        /\ \A i \in 1 .. Len(hist[c].steps) :
              hist[c].steps[i] \in {"reuse", "reconnect"} =>
                \A j \in (i + 1) .. Len(hist[c].steps) : hist[c].steps[j] = "login"
        /\ pc[c] \notin {"gp_load", "gp_connect", "gp_recon_probe", "gp_recon_route"}

\* The probe of the reconnected page threw and the call has gone on to login().
C6_Witness ==
    /\ hist[1].reconFailed = "probe"
    /\ pc[1] = "lg_start"
    /\ hist[1].steps = <<"reconnect", "login">>
    /\ sessionFile = FileEmpty

\* The first getPage of a process returns, no descriptor having been usable
\* and no login attempt having failed.
C7_FreshLoginReturned ==
    /\ pc[1] = "gp_return"
    /\ hist[1].nGetPage = 1
    /\ hist[1].nReconnect = 0
    /\ hist[1].nFailed = 0

\* What C7 says of that return, apart from the time stamp: one login attempt,
\* a descriptor for the connection string, interception on the returned page.
C7_OneLoginInstalled ==
    /\ hist[1].nLogin = 1
    /\ hist[1].won = "login"
    /\ sessionFile.kind = "session"
    /\ sessionFile.wsEndpoint = "wsUrl"
    /\ loc[1].page # 0
    /\ activePage = loc[1].page
    /\ browsers[loc[1].page].state = "open"
    /\ browsers[loc[1].page].routes = 1
    /\ routeInstalled

\* C7, with the time stamp the code writes: in a fresh process with no usable descriptor, credentials
\* present and a first login attempt that succeeds, getPage returns a live page
\* after exactly one login attempt with interception installed on it, and the
\* descriptor persisted carries the clock reading at which login() saved it: not
\* earlier than the call, not later than the return.
C7_SavedAtLoginTime ==
    C7_FreshLoginReturned =>
      /\ C7_OneLoginInstalled
      /\ sessionFile.savedAt = hist[1].savedAt
      /\ hist[1].callTime <= sessionFile.savedAt
      /\ sessionFile.savedAt <= now

\* The clock advanced between the call and the save.
C7_Witness ==
    /\ C7_FreshLoginReturned
    /\ sessionFile.savedAt > hist[1].callTime

\* C7 with the time stamp of the specification: the descriptor's savedAt equals
\* the time of the call.
C7_SavedAtCallTime ==
    C7_FreshLoginReturned =>
      /\ C7_OneLoginInstalled
      /\ sessionFile.savedAt = hist[1].callTime

\* C8: after the solving service has thrown, solveTurnstile goes on to poll; it
\* returns true at the iteration that finds the control enabled, having waited
\* as many poll delays as iterations went before, and the login attempt fails
\* on the challenge only when all TURNSTILE_POLLS checks found it disabled.
C8_FallbackToPolling ==
    \A c \in Callers :
      hist[c].serviceThrew =>
        /\ pc[c] \in {"ts_natural", "ts_poll", "lg_fill", "gp_loop"}
        /\ pc[c] = "ts_poll" => hist[c].tsDelays = loc[c].tsI
        /\ pc[c] = "lg_fill" =>
              /\ hist[c].tsVia = "poll"
              /\ loc[c].tsI < TURNSTILE_POLLS
              /\ hist[c].tsDelays = loc[c].tsI
        /\ pc[c] = "gp_loop" =>
              /\ hist[c].tsVia = "exhausted"
              /\ hist[c].tsDelays = TURNSTILE_POLLS

\* The service threw and polling found the control enabled at iteration 3.
C8_Witness ==
    /\ hist[1].serviceThrew
    /\ pc[1] = "lg_fill"
    /\ hist[1].tsVia = "poll"
    /\ loc[1].tsI = 3
    /\ hist[1].tsDelays = 3

\* Position of a step in getPage's order.
StepRank(step) == CASE step = "reuse" -> 1 [] step = "reconnect" -> 2 [] step = "login" -> 3

\* C9: the steps a getPage call has taken are in the order in-memory reuse,
\* reconnect, login (login possibly several times), each of the first two at
\* most once; when a step has succeeded it was the last one taken and getPage
\* is returning.
C9_StrictOrder ==
    \A c \in Callers :
      /\ \A i \in 1 .. (Len(hist[c].steps) - 1) :
            \/ StepRank(hist[c].steps[i]) < StepRank(hist[c].steps[i + 1])
            \/ hist[c].steps[i] = "login" /\ hist[c].steps[i + 1] = "login"
      /\ hist[c].won # "" =>
            /\ pc[c] = "gp_return"
            /\ hist[c].won = hist[c].steps[Len(hist[c].steps)]

\* The reconnect failed, the first login failed, the second login succeeded.
C9_Witness ==
    /\ pc[1] = "gp_return"
    /\ hist[1].steps = <<"reconnect", "login", "login">>
    /\ hist[1].won = "login"

\* C10: the step in which the in-memory probe succeeds leaves activeBrowser,
\* activePage, routeInstalled and the session file as they were, returns the
\* page that was probed, and the call has done no reconnect and no login.
C10_ReuseLeavesUnchanged ==
    [][\A c \in Callers :
         (pc[c] \in {"gp_start", "gp_probe"} /\ pc'[c] \in {"gp_probe", "gp_return"}) =>
            /\ UNCHANGED <<activeBrowser, activePage, routeInstalled, sessionFile>>
            /\ pc'[c] = "gp_return" =>
                  /\ loc'[c].page = activePage
                  /\ loc'[c].page = loc[c].probed
                  /\ hist'[c].steps = <<"reuse">>
                  /\ hist'[c].nReconnect = 0
                  /\ hist'[c].nLogin = 0]_vars

\* getPage is returning the page of a session an earlier call reconnected to.
C10_Witness ==
    /\ pc[1] = "gp_return"
    /\ hist[1].won = "reuse"
    /\ loc[1].page = activePage
    /\ sessionFile = SavedSession("wsUrl", 2)

\* The getPage call of caller c has just had a liveness failure and its next
\* step has not started: the in-memory probe threw (step 2 is next), or the
\* reconnect failed (step 3 is next).
LivenessFailed(c) ==
    \/ pc[c] = "gp_load" /\ hist[c].steps = <<"reuse">>
    \/ pc[c] = "gp_creds" /\ hist[c].reconFailed # ""

\* The Browser objects the failed step of caller c worked on.
FailedBrowsers(c) == {loc[c].probed, loc[c].browser} \ {0}

\* C11: after a liveness failure at an acquisition step and before the next step
\* starts, the browser that failed is closed, activeBrowser and activePage are
\* null, routeInstalled is false and loadSession returns no descriptor.
C11_TornDownBeforeNextStep ==
    \A c \in Callers :
      LivenessFailed(c) =>
        /\ \A b \in FailedBrowsers(c) : browsers[b].state = "closed"
        /\ activeBrowser = 0
        /\ activePage = 0
        /\ ~routeInstalled
        /\ loadSession(sessionFile, now) = NoSession

\* The getPage call of caller c has ended: it is returning a page or throwing.
GetPageEnded(c) == pc[c] \in {"gp_return", "gp_throw"}

\* C12: getPage ends with the missing-credentials error exactly when neither the
\* in-memory session nor a reconnect gave it a page and one of the four
\* credential fields is empty; login() has then not been called.  With a field
\* empty and a session reused or reconnected, getPage returns that live page.
C12_MissingCredsExactly ==
    \A c \in Callers :
      GetPageEnded(c) =>
        /\ loc[c].result = ErrorResult(MissingCreds)
              <=> (hist[c].won = "" /\ creds # AllCredentials)
        /\ loc[c].result = ErrorResult(MissingCreds) =>
              pc[c] = "gp_throw" /\ hist[c].nLogin = 0
        /\ (creds # AllCredentials /\ hist[c].won # "") =>
              /\ pc[c] = "gp_return"
              /\ hist[c].won \in {"reuse", "reconnect"}
              /\ hist[c].nLogin = 0
              /\ loc[c].page # 0
              /\ browsers[loc[c].page].state = "open"

\* Only the project id is missing, the reconnect failed on its probe, and
\* getPage is throwing the missing-credentials error.
C12_Witness ==
    /\ pc[1] = "gp_throw"
    /\ creds = [AllCredentials EXCEPT !.browserbaseProjectId = FALSE]
    /\ hist[1].reconFailed = "probe"
    /\ hist[1].nLogin = 0
    /\ loc[1].result = ErrorResult(MissingCreds)

\* The execution caller c is waiting for.
CurrentExec(c) == ExecId(c, loc[c].attempt)

\* The execution caller c waits for has timed out and query() has not yet
\* resumed with the rejection.
TimedOut(c) ==
    /\ pc[c] = "ex_wait"
    /\ ex[CurrentExec(c)].state = "rejected"
    /\ ex[CurrentExec(c)].err = QueryTimeout

\* C13: when an execution has timed out, then before the timeout error reaches
\* query() the pending slot is empty and the execution's response listener is
\* no longer registered on the page.
C13_TimeoutDetaches ==
    \A c \in Callers :
      TimedOut(c) =>
        /\ pendingQuery = <<>>
        /\ ~ex[CurrentExec(c)].listening

\* C14: a response listener goes on to read a response only when its call's
\* query has already been swapped into a request: every response it starts to
\* read, every read in progress and every resolution belongs to a call whose
\* swap has happened, and a response emitted before the swap is ignored.
C14_SwapBeforeCorrelation ==
    /\ \A e \in lastResponse.readers : ex[e].swapped
    /\ \A x \in reads : ex[x[1]].swapped
    /\ \A e \in ExecIds : ex[e].state = "resolved" => ex[e].swapped
    /\ \A e \in ExecIds :
         (ex[e].listening /\ ~ex[e].swapped) => e \notin lastResponse.readers

\* The page of a waiting call has emitted a response of the protected host that
\* carries data while the call's query was still in the slot, and the call's
\* listener has not read it.
C14_Witness ==
    \E c \in Callers :
      /\ pc[c] = "ex_wait"
      /\ ex[CurrentExec(c)].state = "waiting"
      /\ ex[CurrentExec(c)].listening
      /\ ~ex[CurrentExec(c)].swapped
      /\ pendingQuery # <<>> /\ pendingQuery[1].owner = CurrentExec(c)
      /\ lastResponse.page = ex[CurrentExec(c)].page
      /\ IncludesHost(lastResponse.url)
      /\ lastResponse.hasData
      /\ lastResponse.readers = {}
      /\ reads = {}

\* The Browser objects that are connected.
OpenBrowsers == {b \in BrowserIds : browsers[b].state = "open"}

\* C15: the process holds at most one open browser connection: when a browser
\* is connected, by the reconnect or by login(), every browser connected before
\* it has been closed, and a browser that failed its probe is closed.
C15_AtMostOneBrowser == Cardinality(OpenBrowsers) <= 1

\* What C16 says of a state: the file being absent, unparseable or holding a
\* descriptor older than the TTL, loadSession returns null, and so did the last
\* read of that file; after clearSession the file is the empty record (or
\* still absent) and every read returns null.
C16_ReadAndClear ==
    \A c \in Callers :
      /\ sessionFile.kind \in {"absent", "malformed"} =>
            loadSession(sessionFile, now) = NoSession
      /\ (sessionFile.kind = "session" /\ now - sessionFile.savedAt > TTL_MS) =>
            loadSession(sessionFile, now) = NoSession
      /\ (/\ hist[c].loadedAt # 0
          /\ \/ sessionFile.kind \in {"absent", "malformed"}
             \/ /\ sessionFile.kind = "session"
                /\ hist[c].loadedAt - sessionFile.savedAt > TTL_MS) =>
            loc[c].saved = NoSession
      /\ hist[c].storeOp = "clear" =>
            /\ sessionFile \in {FileEmpty, FileAbsent}
            /\ loadSession(sessionFile, now) = NoSession
            /\ loc[c].saved = NoSession

DeadTargetClass(msg) ==
    MessageIncludes(msg, "Target closed") \/ MessageIncludes(msg, "timeout")

\* The first execution of caller c's call has failed and the call is not to
\* retry: retry is false or the error is not of the dead-target class.
FirstFailedNoRetry(c) ==
    /\ pc[c] = "ex_wait"
    /\ loc[c].attempt = 1
    /\ ex[ExecId(c, 1)].state = "rejected"
    /\ ~loc[c].retry \/ ~DeadTargetClass(ex[ExecId(c, 1)].err)

\* C17: when the first execution has failed with retry false or with an error
\* outside the dead-target class, the next step of the call ends it with that
\* error: the store, the handles and the browsers stay as they are, getPage has
\* run once and is not called again, and no second execution exists.
C17_PropagatesImmediately ==
    [][\A c \in Callers :
         (FirstFailedNoRetry(c) /\ pc'[c] # pc[c]) =>
            /\ pc'[c] = "done"
            /\ loc'[c].result = ErrorResult(ex[ExecId(c, 1)].err)
            /\ UNCHANGED <<sessionFile, activeBrowser, activePage, routeInstalled,
                           browsers>>
            /\ hist'[c].nGetPage = 1
            /\ hist'[c].nExec = 1
            /\ ex'[ExecId(c, 2)] = NoExec]_vars

\* A call made with retry = false has failed with the timeout of its only
\* execution, and the session it used is still in place.
C17_Witness ==
    /\ pc[1] = "done"
    /\ ~loc[1].retry
    /\ loc[1].attempt = 1
    /\ loc[1].result = ErrorResult(QueryTimeout)
    /\ hist[1].nGetPage = 1
    /\ hist[1].nExec = 1
    /\ activePage # 0 /\ routeInstalled
    /\ browsers[activePage].state = "open"
    /\ sessionFile.kind = "session"

\* The request of the step just taken went out with the pending query's body.
ForwardedSwapped ==
    /\ lastRequest.signalled # 0
    /\ lastRequest.body # AppBody
    /\ lastRequest.url \in {GRAPHQL_URL, CUSTOMER_GRAPHQL_URL}

\* The request of the step just taken went out as the application wrote it.
ForwardedUnmodified ==
    /\ lastRequest.signalled = 0
    /\ lastRequest.body = AppBody
    /\ lastRequest.url = lastRequest.origUrl

\* C18: a request handed to handleRoute gets exactly one route.continue(): it
\* goes out swapped or goes out unmodified, not both, and it is on the network
\* afterwards.
C18_ContinuedExactlyOnce ==
    lastRequest.handled =>
      /\ lastRequest.continues = 1
      /\ ForwardedSwapped \/ ForwardedUnmodified
      /\ ~(ForwardedSwapped /\ ForwardedUnmodified)
      /\ \E r \in reqs :
           /\ r.state = "forwarded"
           /\ r.url = lastRequest.url
           /\ r.body = lastRequest.body

\* handleRoute found the slot empty, the query having been swapped into an
\* earlier request, and continued the request unmodified.
C18_Witness ==
    /\ lastRequest.handled
    /\ ~lastRequest.pendingAtArrival
    /\ lastRequest.continues = 1
    /\ ForwardedUnmodified
    /\ \E e \in ExecIds : ex[e].state = "waiting" /\ ex[e].swapped

\* C19: the step in which handleRoute swaps the query of an execution finds that
\* query in the slot, not yet swapped into any request, and leaves the slot
\* empty; a request handleRoute sees while the slot is empty goes out
\* unmodified.  So a pending query goes into one request at most.
C19_OneShot ==
    /\ [][\A e \in ExecIds :
            lastRequest'.signalled = e =>
              /\ pendingQuery # <<>> /\ pendingQuery[1].owner = e
              /\ ~ex[e].swapped
              /\ ex'[e].swapped
              /\ pendingQuery' = <<>>]_vars
    /\ []((lastRequest.handled /\ ~lastRequest.pendingAtArrival) =>
             (lastRequest.signalled = 0 /\ lastRequest.body = AppBody
              /\ lastRequest.url = lastRequest.origUrl))

\* The query was swapped into one request, no response has been read, and a
\* second request to the same endpoint has gone out with the application's body.
C19_Witness ==
    \E r \in reqs :
      /\ r.state = "forwarded" /\ r.body # AppBody
      /\ reads = {}
      /\ pendingQuery = <<>>
      /\ lastRequest.handled
      /\ lastRequest.origUrl = r.url
      /\ lastRequest.url = r.url
      /\ lastRequest.body = AppBody
      /\ lastRequest.signalled = 0

\* This step is the listener of an execution finishing the read x of a response
\* body: the read is over and neither a browser nor a caller has moved.
ReadCompletes(x) ==
    /\ x \in reads
    /\ reads' = reads \ {x}
    /\ UNCHANGED <<pc, browsers>>

\* C20: an execution resolves only by finishing the read of a response of the
\* protected host that carries data, after its swap, and with that response's
\* data; the first such read to finish resolves it, a read that finds no data
\* changes nothing; a resolved execution has no timer armed and no listener
\* registered, so its timer never fires.
C20_ResolvesOnFirstData ==
    /\ [](\A e \in ExecIds :
            ex[e].state = "resolved" =>
               ~ex[e].timer /\ ~ex[e].listening /\ ex[e].swapped)
    /\ [][\A e \in ExecIds :
            (ex[e].state = "waiting" /\ ex'[e].state = "resolved") =>
               \E x \in reads :
                 /\ ReadCompletes(x) /\ x[1] = e
                 /\ x[2].hasData /\ IncludesHost(x[2].url)
                 /\ ex[e].swapped
                 /\ ex'[e].answers = x[2].body]_vars
    /\ [][\A x \in reads :
            ReadCompletes(x) =>
              /\ (x[2].hasData /\ ex[x[1]].state = "waiting") =>
                    ex'[x[1]].state = "resolved"
              /\ ~x[2].hasData => ex' = ex]_vars

\* The execution has resolved with the data of one response while the read of
\* another response was still going on, and its query is no longer in the slot.
C20_Witness ==
    /\ pc[1] = "ex_wait"
    /\ ex[ExecId(1, 1)].state = "resolved"
    /\ ~ex[ExecId(1, 1)].timer
    /\ ~ex[ExecId(1, 1)].listening
    /\ pendingQuery = <<>>
    /\ \E x \in reads : x[1] = ExecId(1, 1)

\* The caller whose call execution e belongs to; its payload is that caller's id.
ExecCaller(e) == (e + 1) \div 2

\* C21: the data an execution resolves with is the data of the response to the
\* request its own query was swapped into, never that of a response to a
\* request the application wrote.
C21_ResolvesWithOwnResponse ==
    \A e \in ExecIds :
      ex[e].state = "resolved" => ex[e].answers = ExecCaller(e)

\* C22: the request handleRoute swaps goes out with the payload of the call
\* whose query was in the slot and to that call's endpoint, GRAPHQL_URL for
\* query() and CUSTOMER_GRAPHQL_URL for queryCustomer(), whatever URL the
\* application had written; and that is the request on the network.
C22_SwapCarriesPendingQuery ==
    \A e \in ExecIds :
      lastRequest.signalled = e =>
        /\ lastRequest.body = ExecCaller(e)
        /\ lastRequest.url = IF loc[ExecCaller(e)].method = "query"
                             THEN GRAPHQL_URL ELSE CUSTOMER_GRAPHQL_URL
        /\ \E r \in reqs : /\ r.url = lastRequest.url
                           /\ r.body = lastRequest.body
                           /\ r.page = ex[e].page

\* The second call's query() replaced the first call's queryCustomer() in the
\* slot, and a request the application sent to the customer endpoint went out
\* to the other endpoint with the second call's payload.
C22_Witness ==
    /\ lastRequest.signalled = ExecId(2, 1)
    /\ loc[1].method = "queryCustomer"
    /\ loc[2].method = "query"
    /\ lastRequest.origUrl = CUSTOMER_GRAPHQL_URL
    /\ lastRequest.url = GRAPHQL_URL
    /\ lastRequest.body = 2

\* A login attempt of caller c's getPage has failed and the loop has not yet
\* started the next one, or getPage is throwing the login-failed error.
LoginAttemptFailed(c) ==
    \/ pc[c] = "gp_loop" /\ hist[c].nFailed > 0
    \/ pc[c] = "gp_throw" /\ loc[c].result = ErrorResult(LoginFailed)

\* C23: after a failed login attempt the browser the attempt connected is
\* closed and activeBrowser and activePage are null; so it is when getPage
\* fails with the login-failed error.
C23_FailedLoginTearsDown ==
    \A c \in Callers :
      LoginAttemptFailed(c) =>
        /\ loc[c].browser # 0 => browsers[loc[c].browser].state = "closed"
        /\ activeBrowser = 0
        /\ activePage = 0

\* ---------------------------------------------------------------- C24
\* solveTurnstile returned false in caller c's current login attempt.
TurnstileFailed(c) == pc[c] = "gp_loop" /\ hist[c].tsVia = "exhausted"

\* C24: when solveTurnstile returns false the login attempt ends with null
\* having filled no field, activated no submit control, persisted no descriptor
\* and left routeInstalled false; and a form is filled or submitted only in an
\* attempt whose solveTurnstile returned true.
C24_TurnstileFailureAborts ==
    \A c \in Callers :
      /\ TurnstileFailed(c) =>
           /\ hist[c].lgEnd = "null"
           /\ ~hist[c].filled /\ ~hist[c].submitted
           /\ ~hist[c].lgSaved
           /\ ~routeInstalled
      /\ (hist[c].filled \/ hist[c].submitted) => hist[c].tsOk

\* The third attempt of a call gave up on the challenge after the first two
\* had failed as well.
C24_Witness ==
    /\ TurnstileFailed(1) /\ hist[1].nFailed = 3 /\ hist[1].lgEnd = "null"
    /\ ~hist[1].tsOk /\ activeBrowser # 0

\* ---------------------------------------------------------------- C25
\* The read-back of caller c's form showed an empty identifier field or a
\* secret shorter than five characters.
ReadBackFailed(c) == loc[c].fields \in {"emailEmpty", "passShort", "bothBad"}

\* C25 as first stated: a login attempt whose read-back of the form shows the identifier field
\* empty or the secret field too short is abandoned: its form is not submitted.
C25_BadReadBackAbandons ==
    \A c \in Callers : ReadBackFailed(c) => ~hist[c].submitted

\* C25: after a read-back that shows the identifier field empty or the secret
\* field too short, login() types exactly the failing fields again and submits
\* the form in the same attempt; with a good read-back it types nothing again;
\* and login() returns null only when the challenge failed or after the form
\* was submitted, never because of the read-back.
C25_BadReadBackRefillsAndSubmits ==
    \A c \in Callers :
      /\ hist[c].submitted /\ pc[c] = "lg_redirect" =>
           /\ "email" \in hist[c].refilled
                 <=> loc[c].fields \in {"emailEmpty", "bothBad"}
           /\ "password" \in hist[c].refilled
                 <=> loc[c].fields \in {"passShort", "bothBad"}
      /\ ReadBackFailed(c) => pc[c] \in {"lg_verify", "lg_redirect", "lg_route"}
      /\ pc[c] = "gp_loop" /\ hist[c].lgEnd = "null" =>
           hist[c].tsVia = "exhausted" \/ hist[c].submitted

\* Both fields were found cleared, typed again, and the form was submitted.
C25_Witness ==
    /\ pc[1] = "lg_redirect" /\ loc[1].fields = "bothBad"
    /\ hist[1].submitted /\ hist[1].refilled = {"email", "password"}

\* ---------------------------------------------------------------- C26
\* Caller c's login() has just returned null.
LoginReturnedNull(c) == pc[c] = "gp_loop" /\ hist[c].lgEnd = "null"

\* C26: a login attempt that submitted the form and was not redirected ends
\* with null, not with an exception; and whenever login() returns null, that
\* attempt wrote no descriptor and routeInstalled is false.
C26_NullWithoutDescriptor ==
    \A c \in Callers :
      /\ pc[c] = "gp_loop" /\ hist[c].submitted /\ ~hist[c].lgSaved =>
           hist[c].lgEnd = "null"
      /\ LoginReturnedNull(c) => ~hist[c].lgSaved /\ ~routeInstalled

\* In the second getPage of a call the form was submitted and the redirect did
\* not come; the session file exists.
C26_Witness ==
    /\ LoginReturnedNull(1) /\ hist[1].submitted /\ hist[1].nGetPage = 2
    /\ sessionFile # FileAbsent

\* ---------------------------------------------------------------- C27
\* C27: the polling loop of solveTurnstile is bounded: a check is made only
\* after fewer than TURNSTILE_POLLS disabled readings; without a solving-service
\* key the service tier is never entered, true is returned at the first enabled
\* reading with one delay behind each disabled reading and none after the
\* enabled one, and false is returned only after TURNSTILE_POLLS disabled
\* readings, 60 s of delays in all.
C27_PollingBounded ==
    \A c \in Callers :
      /\ pc[c] = "ts_poll" => loc[c].tsI < TURNSTILE_POLLS
      /\ TurnstileFailed(c) => hist[c].tsDelays >= TURNSTILE_POLLS
      /\ ~captchaSolver =>
           /\ pc[c] \notin {"ts_service", "ts_inject"}
           /\ ~hist[c].serviceThrew /\ hist[c].tsVia # "service"
           /\ pc[c] = "ts_poll" => hist[c].tsDelays = loc[c].tsI
           /\ pc[c] = "lg_fill" =>
                /\ hist[c].tsVia = "poll"
                /\ hist[c].tsDelays = loc[c].tsI
                /\ hist[c].tsDelays * POLL_DELAY_MS < 60000
           /\ TurnstileFailed(c) => hist[c].tsDelays * POLL_DELAY_MS = 60000

\* Without a service key, the control was disabled at all thirty checks of the
\* first attempt.
C27_Witness ==
    /\ ~captchaSolver /\ TurnstileFailed(1) /\ hist[1].nFailed = 1
    /\ hist[1].tsDelays = TURNSTILE_POLLS

\* ---------------------------------------------------------------- C28
\* C28: the store holds one record: after a saveSession that no clearSession
\* followed, the file is exactly the descriptor of that save, and a loadSession
\* returns that descriptor while it is younger than the TTL and null afterwards,
\* whatever was saved before; after a clearSession, loadSession returns null.
C28_SingleSlot ==
    \A c \in Callers :
      /\ hist[c].storeOp = "save" =>
           /\ sessionFile = SavedSession(hist[c].savedRef, hist[c].savedAt)
           /\ hist[c].loadedAt # 0 =>
                loc[c].saved = IF hist[c].loadedAt - hist[c].savedAt < TTL_MS
                               THEN SavedSession(hist[c].savedRef, hist[c].savedAt)
                               ELSE NoSession
      /\ (hist[c].storeOp = "clear" /\ hist[c].loadedAt # 0) =>
           loc[c].saved = NoSession

\* Two saves with different references followed one another, and a later read
\* returned the second.
C28_Witness ==
    /\ hist[1].storeOp = "save"
    /\ hist[1].prevRef = "wsOther" /\ hist[1].savedRef = "wsUrl"
    /\ hist[1].loadedAt > hist[1].savedAt
    /\ loc[1].saved = SavedSession("wsUrl", hist[1].savedAt)

\* ---------------------------------------------------------------- C29
\* C29: once a later execution has assigned the slot while the query of
\* execution e was still in it, the slot never holds e's query again, no
\* request is swapped for e or carries its query, and e stays unsettled until
\* its timer rejects it with the timeout error.
C29_StompedEndsByTimeout ==
    \A e \in ExecIds :
      ex[e].stomped =>
        /\ Len(pendingQuery) <= 1
        /\ pendingQuery # <<>> => pendingQuery[1].owner # e
        /\ ~ex[e].swapped
        /\ lastRequest.signalled # e
        /\ \A r \in reqs : r.body # ExecCaller(e)
        /\ ex[e].state \in {"waiting", "rejected"}
        /\ ex[e].state = "waiting" => ex[e].timer
        /\ ex[e].state = "rejected" => ex[e].err = QueryTimeout /\ ~ex[e].timer

\* The first call's query was stomped by the second call's; the second call
\* resolved and the first was rejected by its timer.
C29_Witness ==
    /\ ex[ExecId(1, 1)].stomped
    /\ ex[ExecId(1, 1)].state = "rejected"
    /\ ex[ExecId(1, 1)].err = QueryTimeout
    /\ ex[ExecId(2, 1)].state = "resolved"
    /\ ex[ExecId(2, 1)].answers = 2

\* ---------------------------------------------------------------- C30
\* Serial tool calls with retry, of a process that holds all credentials and no
\* solving-service key and finds an unexpired descriptor, under the scheduling
\* the event loop gives: a timer that is set fires, and an operation a call awaits
\* settles, so the call takes its next step.
InitLive ==
    /\ InitProcess
    /\ ticks = 0
    /\ now = StartTime
    /\ sessionFile = SavedSession("wsUrl", 2)
    /\ creds = AllCredentials
    /\ captchaSolver = FALSE

\* The next step of caller c's call.
CallStep(c) == GetPageStep(c) \/ LoginStep(c) \/ TurnstileStep(c) \/ QueryStep(c)

NextLive ==
    \/ \E m \in Methods : StartQuerySerial(1, m, TRUE)
    \/ GetPageStep(1)
    \/ LoginStep(1)
    \/ TsStart(1) \/ TsNatural(1) \/ TsPollEnabled(1) \/ TsPollDisabled(1)
    \/ TsPollThrows(1)
    \/ QueryStep(1)
    \/ Finish(1)
    \/ BrokerStep

SpecLive ==
    /\ InitLive /\ [][NextLive]_vars
    /\ \A e \in ExecIds : WF_vars(TimerFire(e))
    /\ WF_vars(CallStep(1))

\* The execution has settled: resolved, or rejected with the timeout error.
Settled(e) ==
    \/ ex[e].state = "resolved"
    \/ ex[e].state = "rejected" /\ ex[e].err = QueryTimeout

C31_RetryUsesFreshLogin ==
    \A c \in Callers :
      loc[c].attempt = 2 =>
        /\ pc[c] = "gp_start" =>
             /\ activePage = 0 /\ activeBrowser = 0 /\ ~routeInstalled
             /\ sessionFile.kind # "session"
             /\ browsers[ex[ExecId(c, 1)].page].state = "closed"
        /\ pc[c] \notin {"gp_probe", "gp_connect", "gp_recon_probe", "gp_recon_route"}
        /\ \A i \in 1 .. Len(hist[c].steps) : hist[c].steps[i] = "login"
        /\ pc[c] = "gp_return" => hist[c].won = "login"
        /\ ex[ExecId(c, 2)].state # "none" =>
             ex[ExecId(c, 2)].page # ex[ExecId(c, 1)].page

\* The first execution ran on a reconnected session and timed out; the second
\* getPage of the call has returned a page from its second login attempt.
C31_Witness ==
    /\ loc[1].attempt = 2 /\ pc[1] = "gp_return"
    /\ hist[1].won = "login" /\ hist[1].nLogin = 2
    /\ ex[ExecId(1, 1)].err = QueryTimeout
    /\ browsers[ex[ExecId(1, 1)].page].state = "closed"
    /\ loc[1].page # ex[ExecId(1, 1)].page

\* ---------------------------------------------------------------- C32
\* Serial tool calls of a process that holds all credentials and finds an
\* unexpired descriptor, with the totals of each call kept.
InitWork ==
    /\ InitHandles
    /\ hist = [c \in Callers |-> [InitHist EXCEPT !.tally = TRUE]]
    /\ ticks = 0
    /\ now = StartTime
    /\ sessionFile = SavedSession("wsUrl", 2)
    /\ creds = AllCredentials
    /\ captchaSolver \in BOOLEAN

SpecWork == InitWork /\ [][Next]_vars

\* getPage has failed in caller c's call.
GetPageFailed(c) ==
    loc[c].result \in {ErrorResult(MissingCreds), ErrorResult(LoginFailed)}

\* C32: a call makes at most 2 getPage calls and 2 executions, invalidates the
\* session at most once in its catch clause, makes at most 2 reconnect attempts
\* and at most 2 * MAX_LOGIN_RETRIES login attempts; and when getPage fails,
\* the call fails with that error at once, without an execution or a further
\* getPage after it.
C32_WorkBounded ==
    \A c \in Callers :
      /\ hist[c].nGetPage <= 2
      /\ hist[c].nExec <= 2
      /\ loc[c].cleared <= 1
      /\ hist[c].totReconnect <= 2
      /\ hist[c].totLogin <= 2 * MAX_LOGIN_RETRIES
      /\ GetPageFailed(c) =>
           /\ pc[c] \in {"gp_throw", "done"}
           /\ hist[c].nExec = hist[c].nGetPage - 1

\* A call that used all of it: a reconnect, three logins, a timed-out execution,
\* the invalidation, and three failed logins in the second getPage.
C32_Witness ==
    /\ pc[1] = "done" /\ loc[1].result = ErrorResult(LoginFailed)
    /\ hist[1].nGetPage = 2 /\ hist[1].nExec = 1 /\ loc[1].cleared = 1
    /\ hist[1].totReconnect = 1 /\ hist[1].totLogin = 2 * MAX_LOGIN_RETRIES

\* ================================================= the fetch-based revision
\* query() and queryCustomer() of the revision that sends the query with the
\* page's own fetch.  getAuthenticatedPage is taken as a whole: it returns a
\* page (the held one, or one of a newly connected browser) or throws.

\* How deep the recursion of a call is followed.
MaxFetchDepth == 3

TargetClosed == "page.evaluate: Target closed"
SessionClosed == "Protocol error: Session closed"
GraphQLError == "GraphQL error"
FetchErrors == {TargetClosed, SessionClosed, GraphQLError}

\* (e as Error).message?.includes(sub), for the messages above
FetchIncludes(msg, sub) ==
    <<msg, sub>> \in {<<TargetClosed, "Target closed">>, <<SessionClosed, "Session closed">>}

\* query: if (retry && message.includes("Target closed") ||
\*            message.includes("Session closed"))
\* queryCustomer: if (retry && (message.includes("Target closed") ||
\*                              message.includes("Session closed")))
FetchRetryable(method, retry, msg) ==
    IF method = "query"
    THEN (retry /\ FetchIncludes(msg, "Target closed"))
           \/ FetchIncludes(msg, "Session closed")
    ELSE retry /\ (FetchIncludes(msg, "Target closed")
                     \/ FetchIncludes(msg, "Session closed"))

\* clearSavedSession(): "{}" over an existing file, activePage = null,
\* activeBrowser closed and null
clearSavedSession ==
    /\ sessionFile' = clearSessionFile(sessionFile)
    /\ activePage' = 0
    /\ browsers' = CloseBrowser(browsers, activeBrowser)
    /\ activeBrowser' = 0

\* query(queryStr, variables, retry) or queryCustomer(...) is called:
\* const { token, page } = await this.getAuthenticatedPage()
FetchStart(c, method, retry) ==
    /\ pc[c] = "idle"
    /\ Goto(c, "fq_page")
    /\ loc' = [loc EXCEPT ![c].method = method, ![c].retry = retry, ![c].attempt = 1]
    /\ hist' = [hist EXCEPT ![c].nGetPage = 1]
    /\ UNCHANGED <<now, ticks, sessionFile, activeBrowser, activePage, routeInstalled,
                   pendingQuery, creds, captchaSolver, browsers, reqs, lastRequest,
                   lastResponse, reads, ex, running>>

\* getAuthenticatedPage throws; the call is outside the try block
FetchPageThrows(c) ==
    /\ pc[c] = "fq_page"
    /\ Goto(c, "done")
    /\ loc' = [loc EXCEPT ![c].result = ErrorResult(LoginFailed)]
    /\ UNCHANGED <<now, ticks, sessionFile, activeBrowser, activePage, routeInstalled,
                   pendingQuery, creds, captchaSolver, browsers, reqs, lastRequest,
                   lastResponse, reads, ex, running, hist>>

\* getAuthenticatedPage returns the held page or the page of a new browser;
\* page.evaluate(fetch ...) is started
FetchPageOk(c) ==
    /\ pc[c] = "fq_page"
    /\ IF activePage # 0
       THEN /\ loc' = [loc EXCEPT ![c].page = activePage]
            /\ UNCHANGED <<activeBrowser, activePage, browsers>>
       ELSE /\ HasFreeBrowser
            /\ browsers' = [browsers EXCEPT ![NewBrowser].state = "open"]
            /\ activeBrowser' = NewBrowser
            /\ activePage' = NewBrowser
            /\ loc' = [loc EXCEPT ![c].page = NewBrowser]
    /\ Goto(c, "fq_eval")
    /\ UNCHANGED <<now, ticks, sessionFile, routeInstalled, pendingQuery, creds,
                   captchaSolver, reqs, lastRequest, lastResponse, reads, ex, running,
                   hist>>

\* page.evaluate returned a body with data: return result.data
FetchData(c) ==
    /\ pc[c] = "fq_eval"
    /\ browsers[loc[c].page].state = "open"
    /\ Goto(c, "done")
    /\ loc' = [loc EXCEPT ![c].result = DataResult(c)]
    /\ UNCHANGED <<now, ticks, sessionFile, activeBrowser, activePage, routeInstalled,
                   pendingQuery, creds, captchaSolver, browsers, reqs, lastRequest,
                   lastResponse, reads, ex, running, hist>>

\* page.evaluate threw, or the body held error(s): the catch clause either
\* clears the session and calls the method again with retry = false, or rethrows
FetchError(c, msg) ==
    /\ pc[c] = "fq_eval"
    /\ IF FetchRetryable(loc[c].method, loc[c].retry, msg)
       THEN /\ loc[c].attempt < MaxFetchDepth
            /\ clearSavedSession
            /\ loc' = [loc EXCEPT ![c].retry = FALSE, ![c].attempt = @ + 1,
                                  ![c].cleared = @ + 1, ![c].page = 0]
            /\ hist' = [hist EXCEPT ![c].nGetPage = @ + 1]
            /\ Goto(c, "fq_page")
       ELSE /\ loc' = [loc EXCEPT ![c].result = ErrorResult(msg)]
            /\ Goto(c, "done")
            /\ UNCHANGED <<sessionFile, activeBrowser, activePage, browsers, hist>>
    /\ UNCHANGED <<now, ticks, routeInstalled, pendingQuery, creds, captchaSolver, reqs,
                   lastRequest, lastResponse, reads, ex, running>>

NextFetch ==
    \/ \E c \in Callers, m \in Methods, r \in BOOLEAN : FetchStart(c, m, r)
    \/ \E c \in Callers : FetchPageThrows(c)
    \/ \E c \in Callers : FetchPageOk(c)
    \/ \E c \in Callers : FetchData(c)
    \/ \E c \in Callers, msg \in FetchErrors : FetchError(c, msg)

InitFetch ==
    /\ InitProcess
    /\ ticks = 0
    /\ now = StartTime
    /\ sessionFile \in {FileAbsent, SavedSession("wsUrl", 2)}
    /\ creds = AllCredentials
    /\ captchaSolver = FALSE

SpecFetch == InitFetch /\ [][NextFetch]_vars

\* ---------------------------------------------------------------- C33
\* C33: in the fetch-based revision a call of query() or of queryCustomer()
\* clears the session and calls itself again at most once; the second run has
\* retry = false, and a failure of it, also one whose message contains
\* "Session closed", ends the call without a further reconnect.
C33_FetchReconnectsOnce ==
    \A c \in Callers :
      /\ loc[c].cleared <= 1
      /\ hist[c].nGetPage <= 2
      /\ loc[c].attempt >= 2 => ~loc[c].retry

\* ---------------------------------------------------------------- C34
\* C34 as first stated: the payload of a call is swapped into at most one
\* request in all: when a request was swapped for the first execution, none is
\* swapped for the retried execution.
C34_PayloadSentOnce ==
    \A c \in Callers :
      ~(ex[ExecId(c, 1)].swapped /\ ex[ExecId(c, 2)].swapped)

\* C34: each execution's query leaves the browser in at most one request, so
\* the payload of a call is sent at most twice; a request carries it for the
\* retried execution only after the first execution was rejected by its timer,
\* whether or not a request had carried it for the first.
C34_SentOncePerExecution ==
    \A c \in Callers :
      /\ \A a \in {1, 2} :
           /\ ex[ExecId(c, a)].sent <= 1
           /\ ex[ExecId(c, a)].swapped <=> ex[ExecId(c, a)].sent = 1
      /\ ex[ExecId(c, 2)].sent > 0 =>
           /\ ex[ExecId(c, 1)].state = "rejected"
           /\ ex[ExecId(c, 1)].err = QueryTimeout

\* The query went out for the first execution, which timed out, and went out
\* again for the retried execution, which resolved.
C34_Witness ==
    /\ ex[ExecId(1, 1)].sent = 1 /\ ex[ExecId(1, 1)].err = QueryTimeout
    /\ ex[ExecId(1, 2)].sent = 1 /\ ex[ExecId(1, 2)].state = "resolved"
    /\ ex[ExecId(1, 2)].answers = 1

\* The page p is authenticated and intercepted: it was found inside the
\* application, it carries exactly one registration of the handler, and it is
\* the page the handles and routeInstalled speak of.
Intercepted(p) ==
    /\ p # 0
    /\ browsers[p].valid
    /\ browsers[p].routes = 1
    /\ activePage = p /\ activeBrowser = p
    /\ routeInstalled

\* C35: in serial calls every page getPage returns was validated as inside the
\* application and has the handler registered on it exactly once, by one of
\* the three steps; the page step 1 probes for reuse is such a page too, so a
\* page left by a failed login attempt is never the one reused; and no page
\* ever carries two registrations.
C35_ReturnedPageIntercepted ==
    /\ \A c \in Callers :
         /\ pc[c] = "gp_return" =>
              /\ hist[c].won \in {"reuse", "reconnect", "login"}
              /\ Intercepted(loc[c].page)
         /\ pc[c] = "gp_probe" => Intercepted(loc[c].probed)
    /\ \A b \in BrowserIds : browsers[b].routes <= 1

\* An earlier login attempt of the process had left its page in the handles;
\* this getPage skipped step 1 and returned the page of its own first login.
C35_Witness ==
    /\ pc[1] = "gp_return" /\ hist[1].won = "login"
    /\ hist[1].leftover /\ hist[1].nLogin = 1
    /\ Intercepted(loc[1].page)

\* An executeInterceptedQuery call is in flight: its promise is unsettled.
InFlight(e) == ex[e].state = "waiting"

\* C36: in serial calls the slot is empty whenever no execution is in flight:
\* a query in the slot belongs to an execution that is in flight and has not
\* been swapped, a call that has ended has left nothing of its own in the slot
\* (the slot is empty when no call runs), and a request whose body was swapped
\* was swapped for an execution in flight, never with the payload of an
\* execution that ended.
C36_SlotEmptyWhenIdle ==
    /\ (\A e \in ExecIds : ~InFlight(e)) => pendingQuery = <<>>
    /\ pendingQuery # <<>> =>
         /\ InFlight(pendingQuery[1].owner)
         /\ ~ex[pendingQuery[1].owner].swapped
    /\ NoCallInFlight => pendingQuery = <<>>
    /\ \A c \in Callers :
         pc[c] = "done" /\ pendingQuery # <<>> =>
           pendingQuery[1].owner \notin {ExecId(c, 1), ExecId(c, 2)}
    /\ lastRequest.signalled # 0 => InFlight(lastRequest.signalled)

\* A call ended by the timeout of an execution whose query no request had
\* taken from the slot; the slot is empty.
C36_Witness ==
    /\ pc[1] = "done"
    /\ hist[1].nExec = 1
    /\ ex[ExecId(1, 1)].state = "rejected" /\ ex[ExecId(1, 1)].err = QueryTimeout
    /\ ~ex[ExecId(1, 1)].swapped
    /\ pendingQuery = <<>>

\* ------------------------------------------------- getPage calls that overlap
\* Two tool calls may both be inside getPage: a call starts whenever the event
\* loop is idle, whatever the other call is waiting for.  The process holds
\* credentials and finds an unexpired descriptor or none, so both the
\* reconnect and the login may run in either call; every caller makes one call.
\* The steps of a login succeed while its page is open, up to the redirect,
\* which may fail; the challenge clears at the first reading.
InitRace ==
    /\ InitProcess
    /\ ticks = 0
    /\ now = StartTime
    /\ sessionFile \in {SavedSession("wsUrl", 2), FileAbsent}
    /\ creds = AllCredentials
    /\ captchaSolver = FALSE

StartQueryRacing(c) == StartQuery(c, "query", FALSE)

\* const page = await this.getPage() resumes with the page; what the caller
\* does with it is left out of this specification.
RaceReturn(c) ==
    /\ running = c /\ pc[c] = "gp_return"
    /\ Goto(c, "done")
    /\ running' = 0
    /\ lastRequest' = NoRequest /\ lastResponse' = NoResponse
    /\ UNCHANGED <<now, ticks, sessionFile, activeBrowser, activePage, routeInstalled,
                   pendingQuery, creds, captchaSolver, browsers, reqs, reads, ex, loc,
                   hist>>

NextRace ==
    \/ \E c \in Callers : StartQueryRacing(c)
    \/ \E c \in Callers :
         \/ GpStart(c) \/ GpProbeOk(c) \/ GpProbeThrows(c) \/ GpLoad(c)
         \/ GpConnectThrows(c) \/ GpConnectOk(c)
         \/ GpReconProbeOk(c) \/ GpReconProbeThrows(c)
         \/ GpReconRouteOk(c) \/ GpReconRouteThrows(c)
         \/ GpCreds(c) \/ GpLoop(c)
    \/ \E c \in Callers :
         \/ LgStart(c) \/ LgClose(c) \/ LgConnectOk(c) \/ LgGotoOk(c)
         \/ LgFillOk(c) \/ LgVerifyOk(c)
         \/ LgRedirectFails(c) \/ LgRedirectOk(c) \/ LgRouteOk(c)
    \/ \E c \in Callers : TsStart(c) \/ TsNatural(c) \/ TsPollEnabled(c)
    \/ \E c \in Callers : GpThrow(c) \/ RaceReturn(c)

SpecRace == InitRace /\ [][NextRace]_vars

\* C37: whatever the interleaving of two getPage calls, a call that returns a
\* page returns one that is open and carries the handler, and routeInstalled
\* is true only while the page in activePage carries the handler.
C37_OverlapReturnsIntercepted ==
    /\ \A c \in Callers :
         pc[c] = "gp_return" =>
           /\ loc[c].page # 0
           /\ browsers[loc[c].page].state = "open"
           /\ browsers[loc[c].page].routes >= 1
    /\ routeInstalled => activePage # 0 /\ browsers[activePage].routes >= 1

\* C38: the timer of an execution empties the slot only of that execution's
\* own query: when the timer of e fires, the slot is empty or holds the query
\* of e, whatever the interleaving of the calls.
C38_TimerClearsOwnQuery ==
    [][\A e \in ExecIds :
         TimerFire(e) => pendingQuery = <<>> \/ pendingQuery[1].owner = e]_vars

\* ------------------------------------------------------------------ cleanup
\* A cleanup that also invalidates the persisted descriptor.
cleanupClearsSession ==
    /\ running = 0 /\ NoCallInFlight
    /\ IF activeBrowser # 0
       THEN /\ clearSession(browsers)
            /\ lastRequest' = NoRequest /\ lastResponse' = NoResponse
            /\ UNCHANGED <<now, ticks, pendingQuery, creds, captchaSolver, ex,
                           running, pc, loc, hist>>
       ELSE UNCHANGED vars

\* A cleanup that drops the handles and leaves routeInstalled as it is.
cleanupKeepsRouteFlag ==
    /\ running = 0 /\ NoCallInFlight
    /\ IF activeBrowser # 0
       THEN /\ browsers' = CloseBrowser(browsers, activeBrowser)
            /\ reqs' = DropRequests(reqs, activeBrowser)
            /\ reads' = DropReads(reads, activeBrowser)
            /\ activeBrowser' = 0
            /\ activePage' = 0
            /\ lastRequest' = NoRequest /\ lastResponse' = NoResponse
            /\ UNCHANGED <<now, ticks, sessionFile, routeInstalled, pendingQuery,
                           creds, captchaSolver, ex, running, pc, loc, hist>>
       ELSE UNCHANGED vars

\* async cleanup() { if (activeBrowser) { try { await activeBrowser.close(); }
\* catch {} activeBrowser = null; activePage = null; routeInstalled = false; } }
\* It is taken between tool calls, where nothing of the program that reads the
\* handles runs between the close and the three assignments.
cleanup ==
    /\ running = 0 /\ NoCallInFlight
    /\ IF activeBrowser # 0
       THEN /\ browsers' = CloseBrowser(browsers, activeBrowser)
            /\ reqs' = DropRequests(reqs, activeBrowser)
            /\ reads' = DropReads(reads, activeBrowser)
            /\ activeBrowser' = 0
            /\ activePage' = 0
            /\ routeInstalled' = FALSE
            /\ hist' = [hist EXCEPT ![1].cleaned = TRUE]
            /\ lastRequest' = NoRequest /\ lastResponse' = NoResponse
            /\ UNCHANGED <<now, ticks, sessionFile, pendingQuery, creds,
                           captchaSolver, ex, running, pc, loc>>
       ELSE UNCHANGED vars

\* Serial tool calls of a process with cleanup() called between them, the
\* process going on afterwards.
NextOps ==
    \/ Next
    \/ cleanup

SpecOps == Init /\ [][NextOps]_vars

\* C39: whatever getPage, login, clearSession and cleanup have done,
\* routeInstalled implies that activePage and activeBrowser are set; so
\* routeInstalled is false where step 2 and login() begin, and installRoutes
\* registers the handler on every page newly obtained.
C39_RouteFlagImpliesHandles ==
    /\ routeInstalled => activePage # 0 /\ activeBrowser # 0
    /\ \A c \in Callers :
         /\ pc[c] \in {"gp_load", "gp_connect", "gp_recon_probe", "gp_creds",
                       "gp_loop", "lg_start"} => ~routeInstalled
         /\ pc[c] \in {"gp_recon_route", "lg_route"} => loc[c].routing

\* cleanup() had dropped the handles of a session; the next getPage
\* reconnected by the descriptor and is registering the handler on the page.
C39_Witness ==
    /\ pc[1] = "gp_recon_route" /\ loc[1].routing
    /\ ~routeInstalled
    /\ activePage = loc[1].browser /\ activeBrowser = loc[1].browser
    /\ hist[1].cleaned

\* C40: cleanup() with a browser held closes that browser and resets
\* activeBrowser, activePage and routeInstalled, and leaves the persisted
\* descriptor, the slot and the other browsers as they were; with no browser
\* held it changes nothing.
C40_CleanupFrame ==
    [][cleanup =>
         IF activeBrowser # 0
         THEN /\ browsers'[activeBrowser].state = "closed"
              /\ \A b \in BrowserIds \ {activeBrowser} : browsers'[b] = browsers[b]
              /\ activeBrowser' = 0 /\ activePage' = 0 /\ ~routeInstalled'
              /\ sessionFile' = sessionFile
              /\ loadSession(sessionFile', now') = loadSession(sessionFile, now)
              /\ pendingQuery' = pendingQuery
         ELSE UNCHANGED <<sessionFile, activeBrowser, activePage, routeInstalled,
                          pendingQuery, browsers, reqs, reads, ex>>]_vars

\* A call resolved on a session, cleanup() was called, and the descriptor is
\* still one a later process can load.
C40_Witness ==
    /\ pc[1] = "done" /\ hist[1].cleaned
    /\ ex[ExecId(1, 1)].state = "resolved"
    /\ browsers[ex[ExecId(1, 1)].page].state = "closed"
    /\ activeBrowser = 0 /\ activePage = 0 /\ ~routeInstalled
    /\ loadSession(sessionFile, now) # NoSession

====
